---- MODULE Spec2Model ----
(***************************************************************************)
(* header-warden: the single-file analysis engine                          *)
(* (modules::analyze::CodeParser), the legacy engine (io::disk::File) and  *)
(* the multi-file driver (app::run).                                       *)
(*                                                                         *)
(* A std::string is a sequence of one-character strings, so trimming,      *)
(* lower-casing, comment removal and the two regular expressions are       *)
(* computed character by character, as the code computes them.             *)
(***************************************************************************)
EXTENDS Integers, Sequences, FiniteSets, TLC

\* Longest file (in lines) the engine specifications analyse.
MaxLines == 3

Min(S) == CHOOSE x \in S : \A y \in S : x <= y
Max(S) == CHOOSE x \in S : \A y \in S : x >= y
Range(seq) == {seq[k] : k \in 1..Len(seq)}

(***************************************************************************)
(* Characters: <cctype> in the "C" locale and the regex classes \s \S \w.  *)
(***************************************************************************)
UpperChars == <<"A", "B", "C", "D", "E", "F", "G", "H", "I", "J", "K", "L", "M",
                "N", "O", "P", "Q", "R", "S", "T", "U", "V", "W", "X", "Y", "Z">>
LowerChars == <<"a", "b", "c", "d", "e", "f", "g", "h", "i", "j", "k", "l", "m",
                "n", "o", "p", "q", "r", "s", "t", "u", "v", "w", "x", "y", "z">>
DigitChars == {"0", "1", "2", "3", "4", "5", "6", "7", "8", "9"}

\* std::isspace / \s  (the vertical tab has no TLA+ escape and is left out)
isspace(c) == c \in {" ", "\t", "\n", "\r", "\f"}

isupper(c) == \E k \in 1..26 : UpperChars[k] = c

\* std::tolower
tolower(c) ==
    IF isupper(c) THEN LowerChars[CHOOSE k \in 1..26 : UpperChars[k] = c] ELSE c

\* \w of std::regex (ECMAScript): [A-Za-z0-9_]
IsWordChar(c) ==
    \/ \E k \in 1..26 : UpperChars[k] = c \/ LowerChars[k] = c
    \/ c \in DigitChars
    \/ c = "_"

\* s.compare(pos - 1, Len(lit), lit) == 0
HasPrefixAt(s, pos, lit) ==
    /\ pos >= 1
    /\ pos + Len(lit) - 1 <= Len(s)
    /\ SubSeq(s, pos, pos + Len(lit) - 1) = lit

\* s.find(lit): the 1-based index of the first occurrence, 0 for npos
Find(s, lit) ==
    LET hits == {k \in 1..Len(s) : HasPrefixAt(s, k, lit)}
    IN  IF hits = {} THEN 0 ELSE Min(hits)

(***************************************************************************)
(* core::string                                                            *)
(***************************************************************************)
\* A to_lower that would leave the letters as they are.
KeepCase(str) == str

to_lower(str) == [k \in 1..Len(str) |-> tolower(str[k])]

strip_whitespace(str) ==
    LET kept == {k \in 1..Len(str) : ~isspace(str[k])}
    IN  IF kept = {} THEN <<>> ELSE SubSeq(str, Min(kept), Max(kept))

\* A remove_comment that would leave the comment in place.
KeepComment(str) == str

remove_comment(str) ==
    LET index == Find(str, <<"/", "/">>)
    IN  IF index # 0 THEN SubSeq(str, 1, index - 1) ELSE str

\* url_encoding: the characters of the table and their %XX sequences
UrlEncoded ==
    {" ", "!", "#", "$", "&", "'", "(", ")", "*", "+", ",", "/", ":", ";", "=",
     "?", "@", "[", "]"}

\* A table that would give every character it holds the same code.
url_encoding_all_alike(c) == <<"%", "2", "0">>

url_encoding(c) ==
    CASE c = " " -> <<"%", "2", "0">>
      [] c = "!" -> <<"%", "2", "1">>
      [] c = "#" -> <<"%", "2", "3">>
      [] c = "$" -> <<"%", "2", "4">>
      [] c = "&" -> <<"%", "2", "6">>
      [] c = "'" -> <<"%", "2", "7">>
      [] c = "(" -> <<"%", "2", "8">>
      [] c = ")" -> <<"%", "2", "9">>
      [] c = "*" -> <<"%", "2", "A">>
      [] c = "+" -> <<"%", "2", "B">>
      [] c = "," -> <<"%", "2", "C">>
      [] c = "/" -> <<"%", "2", "F">>
      [] c = ":" -> <<"%", "3", "A">>
      [] c = ";" -> <<"%", "3", "B">>
      [] c = "=" -> <<"%", "3", "D">>
      [] c = "?" -> <<"%", "3", "F">>
      [] c = "@" -> <<"%", "4", "0">>
      [] c = "[" -> <<"%", "5", "B">>
      [] c = "]" -> <<"%", "5", "D">>

LinkBase ==
    <<"h", "t", "t", "p", "s", ":", "/", "/", "d", "u", "c", "k", "d", "u", "c",
      "k", "g", "o", ".", "c", "o", "m", "/", "?", "s", "i", "t", "e", "s", "=",
      "c", "p", "p", "r", "e", "f", "e", "r", "e", "n", "c", "e", ".", "c", "o",
      "m", "&", "q", "=">>

LinkSuffix == <<"&", "i", "a", "=", "w", "e", "b">>

RECURSIVE EncodeName(_)
EncodeName(name) ==
    IF name = <<>> THEN <<>>
    ELSE (IF Head(name) \in UrlEncoded THEN url_encoding(Head(name))
          ELSE <<Head(name)>>) \o EncodeName(Tail(name))

\* A builder that would forget the final part of the URL.
LinkWithoutSuffix(name) == LinkBase \o EncodeName(name)

create_cpp_reference_link(name) == LinkBase \o EncodeName(name) \o LinkSuffix

(***************************************************************************)
(* modules::analyze : the line classifier                                  *)
(***************************************************************************)
\* A test that would know only the two comment starts of the older engine.
begins_with_comment_without_block(line) ==
    \/ HasPrefixAt(line, 1, <<"/", "/">>)
    \/ (line # <<>> /\ line[1] = "*")

begins_with_comment(line) ==
    \/ HasPrefixAt(line, 1, <<"/", "/">>)
    \/ HasPrefixAt(line, 1, <<"/", "*">>)
    \/ (line # <<>> /\ line[1] = "*")

IncludeKeyword == <<"#", "i", "n", "c", "l", "u", "d", "e">>
StdPrefix == <<"s", "t", "d", ":", ":">>

\* The first position >= pos that holds no whitespace (Len(s) + 1 at the end).
SkipSpace(s, pos) ==
    Min({k \in pos..(Len(s) + 1) : k = Len(s) + 1 \/ ~isspace(s[k])})

\* The last position of the run of non-whitespace that starts at pos
\* (pos - 1 when there is none).
NonSpaceRunEnd(s, pos) ==
    Max({e \in (pos - 1)..Len(s) : \A j \in pos..e : ~isspace(s[j])})

\* A pattern without its ^ : the first match anywhere in s.
include_directive_regex_unanchored(s) ==
    LET MatchEnd(k) ==
            LET lt == SkipSpace(s, k + Len(IncludeKeyword))
                run == NonSpaceRunEnd(s, lt + 1)
                closes == {e \in (lt + 2)..run : s[e] = ">"}
            IN  IF HasPrefixAt(s, k, IncludeKeyword)
                   /\ HasPrefixAt(s, lt, <<"<">>) /\ closes # {}
                THEN Max(closes) ELSE 0
        starts == {k \in 1..Len(s) : MatchEnd(k) > 0}
    IN  IF starts = {} THEN 0 ELSE MatchEnd(Min(starts))

\* regex_search(s, include_directive_regex) with ^\s*#include\s*<\S+> : the
\* index of the last character of the match, 0 when nothing matches. The
\* pattern is anchored, so a match starts at the first character; \S+ is
\* greedy, so the match ends at the last '>' of the run of non-whitespace
\* that follows '<'.
include_directive_regex(s) ==
    LET kw == SkipSpace(s, 1)
    IN  IF ~HasPrefixAt(s, kw, IncludeKeyword) THEN 0
        ELSE LET lt == SkipSpace(s, kw + Len(IncludeKeyword))
             IN  IF ~HasPrefixAt(s, lt, <<"<">>) THEN 0
                 ELSE LET run == NonSpaceRunEnd(s, lt + 1)
                          closes == {e \in (lt + 2)..run : s[e] = ">"}
                      IN  IF closes = {} THEN 0 ELSE Max(closes)

\* The last position of the run of \w characters that starts at pos.
WordRunEnd(s, pos) ==
    Max({e \in pos..Len(s) : \A j \in pos..e : IsWordChar(s[j])})

\* std::sregex_iterator over std::(\w+): every non-overlapping match, left to
\* right, each as match.str(0).
RECURSIVE std_identifier_matches(_, _)
std_identifier_matches(s, from) ==
    LET starts == {k \in from..Len(s) :
                      /\ HasPrefixAt(s, k, StdPrefix)
                      /\ k + Len(StdPrefix) <= Len(s)
                      /\ IsWordChar(s[k + Len(StdPrefix)])}
    IN  IF starts = {} THEN <<>>
        ELSE LET k == Min(starts)
                 e == WordRunEnd(s, k + Len(StdPrefix))
             IN  <<SubSeq(s, k, e)>> \o std_identifier_matches(s, e + 1)

std_identifier_regex(s) == std_identifier_matches(s, 1)

\* One iteration of the constructor's loop up to the categorisation:
\* what the line is skipped for, or what was matched on it.
ParseLine(line_text) ==
    IF line_text = <<>> THEN
        [skip |-> TRUE, line_contains_include |-> FALSE,
         include_directive |-> <<>>, std_identifiers |-> <<>>]
    ELSE
        LET stripped == to_lower(strip_whitespace(line_text))
        IN  IF begins_with_comment(stripped) THEN
                [skip |-> TRUE, line_contains_include |-> FALSE,
                 include_directive |-> <<>>, std_identifiers |-> <<>>]
            ELSE
                LET m == include_directive_regex(stripped)
                    processed_line ==
                        IF m > 0 THEN stripped ELSE remove_comment(stripped)
                IN  [skip |-> FALSE,
                     line_contains_include |-> m > 0,
                     include_directive |-> SubSeq(stripped, 1, m),
                     std_identifiers |-> std_identifier_regex(processed_line)]

\* The three branches of the categorisation (if / else if / else if).
IsIncludeWithFunctions(line_contains_include, std_identifiers) ==
    line_contains_include /\ std_identifiers # <<>>

\* The second branch as a plain "if", not an "else if".
IsBareIncludeWithoutElse(line_contains_include, std_identifiers) ==
    line_contains_include

\* A second branch that would take every line without symbols.
IsBareIncludeAnyLine(line_contains_include, std_identifiers) ==
    std_identifiers = <<>>

IsBareInclude(line_contains_include, std_identifiers) ==
    /\ ~IsIncludeWithFunctions(line_contains_include, std_identifiers)
    /\ line_contains_include

IsUsage(line_contains_include, std_identifiers) ==
    /\ ~IsIncludeWithFunctions(line_contains_include, std_identifiers)
    /\ ~IsBareInclude(line_contains_include, std_identifiers)
    /\ std_identifiers # <<>>

\* The records the branches emplace.
\* A record that would keep the whole line as the header.
BareIncludeWithWholeLine(number, text, header) ==
    [number |-> number, text |-> text, header |-> text]

BareInclude(number, text, header) ==
    [number |-> number, text |-> text, header |-> header]

\* A record that keeps the matching copy of the line instead of the line.
IncludeWithProcessedText(number, text, unused) ==
    [number |-> number, text |-> to_lower(strip_whitespace(text)),
     unused_functions |-> unused]

IncludeWithUnusedFunctions(number, text, unused) ==
    [number |-> number, text |-> text, unused_functions |-> unused]

UnlistedFunction(number, text, function, link) ==
    [number |-> number, text |-> text, function |-> function, link |-> link]

\* for (identifier_name : std_identifiers) temp_std_entities.emplace_back(...)
Entities(number, text, std_identifiers) ==
    [k \in 1..Len(std_identifiers) |->
        UnlistedFunction(number, text, std_identifiers[k], <<>>)]

(***************************************************************************)
(* modules::analyze : the reconciliation passes                            *)
(***************************************************************************)
\* A set of used symbols that would always be empty.
NoStdIdentifiersUsed(entities) == {}

\* used_std_identifiers: every identifier used in the code
UsedStdIdentifiers(entities) ==
    {entities[k].function : k \in 1..Len(entities)}

\* The legacy loop: each usage erases the first equal entry of the list.
RECURSIVE EraseFirst(_, _)
EraseFirst(list, name) ==
    IF list = <<>> THEN <<>>
    ELSE IF Head(list) = name THEN Tail(list)
    ELSE <<Head(list)>> \o EraseFirst(Tail(list), name)

RECURSIVE EraseEach(_, _)
EraseEach(list, names) ==
    IF names = <<>> THEN list
    ELSE EraseEach(EraseFirst(list, Head(names)), Tail(names))

\* The legacy reconciliation on a set of usages: a used function erases only
\* its first entry of the list.
RECURSIVE FunctionsNotReferencedErasing(_, _)
FunctionsNotReferencedErasing(listed, used) ==
    IF used = {} THEN listed
    ELSE LET u == CHOOSE x \in used : TRUE
         IN  FunctionsNotReferencedErasing(EraseFirst(listed, u), used \ {u})

\* functions_not_referenced: the listed functions that are not in the set
RECURSIVE FunctionsNotReferenced(_, _)
FunctionsNotReferenced(listed, used) ==
    IF listed = <<>> THEN <<>>
    ELSE (IF Head(listed) \notin used THEN <<Head(listed)>> ELSE <<>>)
         \o FunctionsNotReferenced(Tail(listed), used)

\* A loop that would report every include that lists symbols, with the
\* symbols of its list that are not used, however few.
RECURSIVE UnusedFunctionsOfEveryInclude(_, _)
UnusedFunctionsOfEveryInclude(includes, used) ==
    IF includes = <<>> THEN <<>>
    ELSE <<IncludeWithUnusedFunctions(
               Head(includes).number, Head(includes).text,
               FunctionsNotReferenced(Head(includes).unused_functions, used))>>
         \o UnusedFunctionsOfEveryInclude(Tail(includes), used)

\* The loop over temp_includes_with_functions that fills unused_functions_
RECURSIVE UnusedFunctionsOf(_, _)
UnusedFunctionsOf(includes, used) ==
    IF includes = <<>> THEN <<>>
    ELSE LET inc == Head(includes)
             functions_not_referenced ==
                 FunctionsNotReferenced(inc.unused_functions, used)
         IN  (IF functions_not_referenced # <<>>
              THEN <<IncludeWithUnusedFunctions(inc.number, inc.text,
                                                functions_not_referenced)>>
              ELSE <<>>)
             \o UnusedFunctionsOf(Tail(includes), used)

\* A set that would hold only what the first include of the file lists.
FunctionsInFirstIncludeDirective(includes) ==
    IF includes = <<>> THEN {} ELSE Range(includes[1].unused_functions)

\* functions_in_include_directives: every function listed by some include
FunctionsInIncludeDirectives(includes) ==
    UNION {{includes[k].unused_functions[j] :
                j \in 1..Len(includes[k].unused_functions)} :
           k \in 1..Len(includes)}

\* A loop that reports a function once, however often it is used.
RECURSIVE UnlistedFunctionsOfMerging(_, _)
UnlistedFunctionsOfMerging(entities, listed) ==
    IF entities = <<>> THEN <<>>
    ELSE LET e == Head(entities)
         IN  (IF e.function \notin listed
              THEN <<UnlistedFunction(e.number, e.text, e.function,
                                      create_cpp_reference_link(e.function))>>
              ELSE <<>>)
             \o UnlistedFunctionsOfMerging(Tail(entities),
                                           listed \cup {e.function})

\* A loop that puts each new finding in front of the earlier ones.
RECURSIVE UnlistedFunctionsOfReversed(_, _)
UnlistedFunctionsOfReversed(entities, listed) ==
    IF entities = <<>> THEN <<>>
    ELSE LET e == Head(entities)
         IN  UnlistedFunctionsOfReversed(Tail(entities), listed)
             \o (IF e.function \notin listed
                 THEN <<UnlistedFunction(e.number, e.text, e.function,
                                         create_cpp_reference_link(e.function))>>
                 ELSE <<>>)

\* The loop over temp_std_entities that fills unlisted_functions_
RECURSIVE UnlistedFunctionsOf(_, _)
UnlistedFunctionsOf(entities, listed) ==
    IF entities = <<>> THEN <<>>
    ELSE LET e == Head(entities)
         IN  (IF e.function \notin listed
              THEN <<UnlistedFunction(e.number, e.text, e.function,
                                      create_cpp_reference_link(e.function))>>
              ELSE <<>>)
             \o UnlistedFunctionsOf(Tail(entities), listed)

(***************************************************************************)
(* core::io::read_lines                                                    *)
(***************************************************************************)
\* What a path can be on disk.
PathKinds == {"regular", "missing", "directory", "unreadable"}

Line(number, text) == [number |-> number, text |-> text]

\* A loader that would count the lines from 0.
NumberLinesFromZero(content) ==
    [k \in 1..Len(content) |-> [number |-> k - 1, text |-> content[k]]]

NumberLines(content) == [k \in 1..Len(content) |-> Line(k, content[k])]

\* The outcomes of read_lines. std::ifstream cannot open a missing or an
\* unreadable path. Opening a directory is left to the platform: either the
\* open fails, or it succeeds and the first std::getline fails, which ends
\* the loop with no line read (the stream state is not looked at after it).
read_lines(kind, content) ==
    CASE kind = "regular" ->
            {[ok |-> TRUE, lines |-> NumberLines(content), what |-> ""]}
      [] kind \in {"missing", "unreadable"} ->
            {[ok |-> FALSE, lines |-> <<>>, what |-> "std::runtime_error"]}
      [] kind = "directory" ->
            {[ok |-> FALSE, lines |-> <<>>, what |-> "std::runtime_error"],
             [ok |-> TRUE, lines |-> <<>>, what |-> ""]}

(***************************************************************************)
(* The files the engine is run on                                          *)
(***************************************************************************)
LineBare == IncludeKeyword \o <<" ", "<", "v", ">">>
LineAnnotatedC ==
    <<" ", " ", "#", "I", "N", "C", "L", "U", "D", "E", " ", "<", "S", ">",
      " ", "/", "/", " ", "S", "T", "D", ":", ":", "C">>
LineAnnotatedBAB ==
    IncludeKeyword \o <<"<", "m", ">", "/", "/">> \o StdPrefix \o <<"b", ",">>
    \o StdPrefix \o <<"a", ",">> \o StdPrefix \o <<"b">>
LineUseA == StdPrefix \o <<"a", "(", "x", ")", ";">>
LineUseBB ==
    <<"\t", "S", "T", "D", ":", ":", "B", "(", "S", "T", "D", ":", ":", "B", ")",
      " ">>
LineUseCB ==
    StdPrefix \o <<"c", "+">> \o StdPrefix \o <<"b", " ", "/", "/">>
    \o StdPrefix \o <<"a">>
LineEmpty == <<>>
LineBlank == <<" ", "\t">>
LineStar == <<"*">>
LineSlash == <<"/">>

Corpus ==
    {LineBare, LineAnnotatedC, LineAnnotatedBAB, LineUseA, LineUseBB,
     LineUseCB, LineEmpty, LineBlank, LineStar, LineSlash}

Files == UNION {[1..n -> Corpus] : n \in 0..MaxLines}

\* Lines at the edges of the classification: commented-out text, a quoted
\* include, a bare include with more on its line, a directive after code.
LineCommentedInclude ==
    <<" ", "/", "/">> \o IncludeKeyword \o <<"<", "m", ">", "/", "/">>
    \o StdPrefix \o <<"a">>
LineBlockComment == <<"/", "*">> \o StdPrefix \o <<"a">>
LineStarComment == <<"\t", "*", " ">> \o StdPrefix \o <<"b">>
LineQuoted == IncludeKeyword \o <<" ", "\"", "x", "\"">>
LineBareUpper ==
    <<"\t", "#", "I", "n", "c", "l", "u", "d", "e", " ", " ", "<", "V", ">",
      ">", " ", "x", " ">>
LineEmbedded ==
    StdPrefix \o <<"a", ";">> \o IncludeKeyword \o <<" ", "<", "m", ">", "/", "/">>
    \o StdPrefix \o <<"b">>

EdgeCorpus ==
    {LineCommentedInclude, LineBlockComment, LineStarComment, LineQuoted,
     LineBareUpper, LineEmbedded, LineBare, LineAnnotatedBAB, LineUseA}

EdgeFiles == UNION {[1..n -> EdgeCorpus] : n \in 0..MaxLines}

(***************************************************************************)
(* State                                                                   *)
(***************************************************************************)
VARIABLES
    kind,           \* what input_path is on disk
    disk,           \* the text of the lines of the file at input_path
    pc,             \* where the constructor is
    lines,          \* the vector read_lines returned
    i,              \* the index of the next line of the range-for loop
    temp_includes_with_functions,
    temp_std_entities,
    bare_includes,          \* bare_includes_
    unused_functions,       \* unused_functions_
    unlisted_functions,     \* unlisted_functions_
    error,          \* the exception that left the constructor, "" for none
    globals,        \* core::globals::bare, unused, unlisted
    temp_functions,         \* io::disk::File: the usages, one entry a line
    missing_functions,      \* io::disk::File::missing_functions_
    args,           \* core::args::Args: filepaths and enable
    run_pc,         \* where app::run is
    path_index,     \* the index of the next path of the loop of app::run
    task,           \* where each call of process_file is
    oss,            \* each call's std::ostringstream
    written,        \* how much of oss.str() print has written
    stream_mutex,   \* who holds the mutex of sync_out, 0 for nobody
    console,        \* what has been written to the standard output
    thrown,         \* the exception that left each call, "" for none
    run_error,      \* the exception that left app::run, "" for none
    symbol_name,    \* the argument of create_cpp_reference_link
    link,           \* what create_cpp_reference_link returned
    link_pc,        \* where the call of create_cpp_reference_link is
    argv,           \* the command line, the program's name first
    args_,          \* ArgParser::args_
    positional_args,    \* what get_positional_arguments returned
    args_pc,        \* where the use of the ArgParser is
    main_pc,        \* where main is
    files,          \* main's vector of files to process
    verbose,        \* core::globals::verbose
    exit_status     \* the expression main returned, "" before it returns

engineVars ==
    <<kind, disk, pc, lines, i, temp_includes_with_functions,
      temp_std_entities, bare_includes, unused_functions, unlisted_functions,
      error>>
legacyVars == <<globals, temp_functions, missing_functions>>
appVars ==
    <<args, run_pc, path_index, task, oss, written, stream_mutex, console,
      thrown, run_error>>
mainVars == <<main_pc, files, verbose, exit_status>>
utilVars ==
    <<symbol_name, link, link_pc, argv, args_, positional_args, args_pc,
      mainVars>>
vars == <<engineVars, legacyVars, appVars, utilVars>>

\* core::globals as initialised in globals.hpp
DefaultGlobals == [bare |-> TRUE, unused |-> TRUE, unlisted |-> TRUE]

InitEngine ==
    /\ kind \in PathKinds
    /\ disk \in (IF kind = "regular" THEN Files ELSE {<<>>})
    /\ pc = "load"
    /\ lines = <<>>
    /\ i = 1
    /\ temp_includes_with_functions = <<>>
    /\ temp_std_entities = <<>>
    /\ bare_includes = <<>>
    /\ unused_functions = <<>>
    /\ unlisted_functions = <<>>
    /\ error = ""
    /\ temp_functions = <<>>
    /\ missing_functions = <<>>

\* main has not been entered
NoMain ==
    /\ main_pc = "idle"
    /\ files = <<>>
    /\ verbose = FALSE
    /\ exit_status = ""

\* Neither create_cpp_reference_link nor the ArgParser is in use
NoCall ==
    /\ NoMain
    /\ symbol_name = <<>>
    /\ link = <<>>
    /\ link_pc = "idle"
    /\ argv = <<>>
    /\ args_ = <<>>
    /\ positional_args = <<>>
    /\ args_pc = "idle"

\* app::run has not been called
NoRun ==
    /\ args = [filepaths |-> <<>>,
               enable |-> [bare |-> TRUE, unused |-> TRUE, unlisted |-> TRUE,
                           multithreading |-> TRUE]]
    /\ run_pc = "idle"
    /\ path_index = 1
    /\ task = <<>>
    /\ oss = <<>>
    /\ written = <<>>
    /\ stream_mutex = 0
    /\ console = <<>>
    /\ thrown = <<>>
    /\ run_error = ""

Init ==
    /\ InitEngine
    /\ globals = DefaultGlobals
    /\ NoRun
    /\ NoCall

(***************************************************************************)
(* modules::analyze::CodeParser::CodeParser                                *)
(***************************************************************************)
\* core::io::read_lines(input_path): the range of the loop, or the exception
ReadLines ==
    /\ pc = "load"
    /\ \E r \in read_lines(kind, disk) :
          IF r.ok
          THEN /\ lines' = r.lines
               /\ pc' = "scan"
               /\ error' = error
          ELSE /\ lines' = lines
               /\ pc' = "failed"
               /\ error' = r.what
    /\ UNCHANGED <<kind, disk, i, temp_includes_with_functions,
                   temp_std_entities, bare_includes, unused_functions,
                   unlisted_functions, legacyVars, appVars, utilVars>>

\* One iteration of the loop over the lines
ScanLine ==
    /\ pc = "scan"
    /\ i <= Len(lines)
    /\ \E p \in {ParseLine(lines[i].text)} :
       LET line_number == lines[i].number
           line_text == lines[i].text
           inc == p.line_contains_include
           ids == p.std_identifiers
       IN  /\ temp_includes_with_functions' =
                 IF ~p.skip /\ IsIncludeWithFunctions(inc, ids)
                 THEN Append(temp_includes_with_functions,
                             IncludeWithUnusedFunctions(line_number, line_text, ids))
                 ELSE temp_includes_with_functions
           /\ bare_includes' =
                 IF ~p.skip /\ IsBareInclude(inc, ids)
                 THEN Append(bare_includes,
                             BareInclude(line_number, line_text, p.include_directive))
                 ELSE bare_includes
           /\ temp_std_entities' =
                 IF ~p.skip /\ IsUsage(inc, ids)
                 THEN temp_std_entities \o Entities(line_number, line_text, ids)
                 ELSE temp_std_entities
    /\ i' = i + 1
    /\ UNCHANGED <<kind, disk, pc, lines, unused_functions, unlisted_functions,
                   error, legacyVars, appVars, utilVars>>

\* --- EXTRACT UNUSED FUNCTIONS ---
ExtractUnusedFunctions ==
    /\ pc = "scan"
    /\ i > Len(lines)
    /\ unused_functions' =
          UnusedFunctionsOf(temp_includes_with_functions,
                            UsedStdIdentifiers(temp_std_entities))
    /\ pc' = "unlisted"
    /\ UNCHANGED <<kind, disk, lines, i, temp_includes_with_functions,
                   temp_std_entities, bare_includes, unlisted_functions, error,
                   legacyVars, appVars, utilVars>>

\* --- EXTRACT MISSING FUNCTIONS ---
ExtractUnlistedFunctions ==
    /\ pc = "unlisted"
    /\ unlisted_functions' =
          UnlistedFunctionsOf(temp_std_entities,
                              FunctionsInIncludeDirectives(temp_includes_with_functions))
    /\ pc' = "done"
    /\ UNCHANGED <<kind, disk, lines, i, temp_includes_with_functions,
                   temp_std_entities, bare_includes, unused_functions, error,
                   legacyVars, appVars, utilVars>>

Next ==
    \/ ReadLines
    \/ ScanLine
    \/ ExtractUnusedFunctions
    \/ ExtractUnlistedFunctions

Spec == Init /\ [][Next]_vars

\* The constructor on the files made of the lines at the edges.
InitEdge ==
    /\ kind \in PathKinds
    /\ disk \in (IF kind = "regular" THEN EdgeFiles ELSE {<<>>})
    /\ pc = "load"
    /\ lines = <<>>
    /\ i = 1
    /\ temp_includes_with_functions = <<>>
    /\ temp_std_entities = <<>>
    /\ bare_includes = <<>>
    /\ unused_functions = <<>>
    /\ unlisted_functions = <<>>
    /\ error = ""
    /\ temp_functions = <<>>
    /\ missing_functions = <<>>
    /\ globals = DefaultGlobals
    /\ NoRun
    /\ NoCall

SpecEdge == InitEdge /\ [][Next]_vars

(***************************************************************************)
(* The legacy engine: io::disk::File (io/disk.cpp, utils/strings.cpp)      *)
(***************************************************************************)
\* utils::strings::trim_whitespace: find_first_not_of / find_last_not_of
trim_whitespace(str) ==
    LET kept == {k \in 1..Len(str) : ~isspace(str[k])}
    IN  IF kept = {} THEN <<>> ELSE SubSeq(str, Min(kept), Max(kept))

\* utils::strings::remove_comments
remove_comments(str) ==
    LET index == Find(str, <<"/", "/">>)
    IN  IF index # 0 THEN SubSeq(str, 1, index - 1) ELSE str

\* load_lines: exists and is_directory are tested before the file is opened
load_lines(path_kind, content) ==
    CASE path_kind = "missing" ->
            {[ok |-> FALSE, lines |-> <<>>, what |-> "std::invalid_argument"]}
      [] path_kind = "directory" ->
            {[ok |-> FALSE, lines |-> <<>>, what |-> "std::invalid_argument"]}
      [] path_kind = "unreadable" ->
            {[ok |-> FALSE, lines |-> <<>>, what |-> "std::runtime_error"]}
      [] path_kind = "regular" ->
            {[ok |-> TRUE, lines |-> NumberLines(content), what |-> ""]}

\* One iteration of File::File's loop up to the categorisation. at(0) on an
\* empty processed_line throws std::out_of_range.
FileParseLine(line_text) ==
    IF line_text = <<>> THEN
        [skip |-> TRUE, throws |-> FALSE, line_contains_include |-> FALSE,
         include_directive |-> <<>>, function_calls |-> <<>>]
    ELSE
        LET trimmed == to_lower(trim_whitespace(line_text))
        IN  IF trimmed = <<>> THEN
                [skip |-> FALSE, throws |-> TRUE, line_contains_include |-> FALSE,
                 include_directive |-> <<>>, function_calls |-> <<>>]
            ELSE IF trimmed[1] = "*" \/ HasPrefixAt(trimmed, 1, <<"/", "/">>) THEN
                [skip |-> TRUE, throws |-> FALSE, line_contains_include |-> FALSE,
                 include_directive |-> <<>>, function_calls |-> <<>>]
            ELSE
                LET m == include_directive_regex(trimmed)
                    processed_line ==
                        IF m > 0 THEN trimmed ELSE remove_comments(trimmed)
                IN  [skip |-> FALSE, throws |-> FALSE,
                     line_contains_include |-> m > 0,
                     include_directive |-> SubSeq(trimmed, 1, m),
                     function_calls |-> std_identifier_regex(processed_line)]

\* io::disk::BareInclude, IncludeWithFunctions, Functions
FileBareInclude(line, name) == [line |-> line, name |-> name]
FileIncludeWithFunctions(line, name, functions) ==
    [line |-> line, name |-> name, functions |-> functions]
FileFunctions(line, functions) == [line |-> line, functions |-> functions]

\* Every function name of temp_functions, in the order the loops visit them.
RECURSIVE FunctionNames(_)
FunctionNames(functions_in_file) ==
    IF functions_in_file = <<>> THEN <<>>
    ELSE Head(functions_in_file).functions \o FunctionNames(Tail(functions_in_file))

\* The loop that fills unused_functions_: each used name erases the first
\* equal entry of the copy of the include's list.
RECURSIVE FileUnusedFunctionsOf(_, _)
FileUnusedFunctionsOf(includes, functions_in_file) ==
    IF includes = <<>> THEN <<>>
    ELSE LET inc == Head(includes)
             functions_not_referenced ==
                 EraseEach(inc.functions, FunctionNames(functions_in_file))
         IN  (IF functions_not_referenced # <<>>
              THEN <<FileIncludeWithFunctions(inc.line, inc.name,
                                              functions_not_referenced)>>
              ELSE <<>>)
             \o FileUnusedFunctionsOf(Tail(includes), functions_in_file)

FileFunctionsInIncludeDirectives(includes) ==
    UNION {Range(includes[k].functions) : k \in 1..Len(includes)}

\* The findings of one entry of temp_functions, one for each unlisted name.
RECURSIVE MissingOnLine(_, _, _)
MissingOnLine(line, names, listed) ==
    IF names = <<>> THEN <<>>
    ELSE (IF Head(names) \notin listed
          THEN <<FileFunctions(line, <<Head(names)>>)>> ELSE <<>>)
         \o MissingOnLine(line, Tail(names), listed)

\* The loop that fills missing_functions_
RECURSIVE FileMissingFunctionsOf(_, _)
FileMissingFunctionsOf(functions_in_file, listed) ==
    IF functions_in_file = <<>> THEN <<>>
    ELSE MissingOnLine(Head(functions_in_file).line,
                       Head(functions_in_file).functions, listed)
         \o FileMissingFunctionsOf(Tail(functions_in_file), listed)

\* The values main gives the three flags of core::globals.
GlobalsValues == [bare : BOOLEAN, unused : BOOLEAN, unlisted : BOOLEAN]

InitLegacy ==
    /\ InitEngine
    /\ globals \in GlobalsValues
    /\ NoRun
    /\ NoCall

\* load_lines(file_path): the range of the loop, or the exception
LoadLines ==
    /\ pc = "load"
    /\ \E r \in load_lines(kind, disk) :
          IF r.ok
          THEN /\ lines' = r.lines
               /\ pc' = "scan"
               /\ error' = error
          ELSE /\ lines' = lines
               /\ pc' = "failed"
               /\ error' = r.what
    /\ UNCHANGED <<kind, disk, i, temp_includes_with_functions,
                   temp_std_entities, bare_includes, unused_functions,
                   unlisted_functions, legacyVars, appVars, utilVars>>

\* One iteration of the loop over the lines
FileScanLine ==
    /\ pc = "scan"
    /\ i <= Len(lines)
    /\ \E p \in {FileParseLine(lines[i].text)} :
       LET current_line == lines[i]
           inc == p.line_contains_include
           calls == p.function_calls
       IN  IF p.throws
           THEN /\ pc' = "failed"
                /\ error' = "std::out_of_range"
                /\ UNCHANGED <<i, temp_includes_with_functions, bare_includes,
                               temp_functions>>
           ELSE /\ temp_includes_with_functions' =
                      IF ~p.skip /\ inc /\ calls # <<>>
                      THEN Append(temp_includes_with_functions,
                                  FileIncludeWithFunctions(current_line,
                                                           p.include_directive, calls))
                      ELSE temp_includes_with_functions
                /\ bare_includes' =
                      IF ~p.skip /\ inc /\ calls = <<>> /\ globals.bare
                      THEN Append(bare_includes,
                                  FileBareInclude(current_line, p.include_directive))
                      ELSE bare_includes
                /\ temp_functions' =
                      IF ~p.skip /\ ~inc /\ calls # <<>>
                      THEN Append(temp_functions, FileFunctions(current_line, calls))
                      ELSE temp_functions
                /\ i' = i + 1
                /\ UNCHANGED <<pc, error>>
    /\ UNCHANGED <<kind, disk, lines, temp_std_entities, unused_functions,
                   unlisted_functions, globals, missing_functions, appVars, utilVars>>

\* Extract unused functions (if enabled)
FileExtractUnused ==
    /\ pc = "scan"
    /\ i > Len(lines)
    /\ unused_functions' =
          IF globals.unused
          THEN FileUnusedFunctionsOf(temp_includes_with_functions, temp_functions)
          ELSE unused_functions
    /\ pc' = "missing"
    /\ UNCHANGED <<kind, disk, lines, i, temp_includes_with_functions,
                   temp_std_entities, bare_includes, unlisted_functions, error,
                   legacyVars, appVars, utilVars>>

\* Extract missing functions (if enabled)
FileExtractMissing ==
    /\ pc = "missing"
    /\ missing_functions' =
          IF globals.unlisted
          THEN FileMissingFunctionsOf(
                   temp_functions,
                   FileFunctionsInIncludeDirectives(temp_includes_with_functions))
          ELSE missing_functions
    /\ pc' = "done"
    /\ UNCHANGED <<kind, disk, lines, i, temp_includes_with_functions,
                   temp_std_entities, bare_includes, unused_functions,
                   unlisted_functions, error, globals, temp_functions, appVars, utilVars>>

NextLegacy ==
    \/ LoadLines
    \/ FileScanLine
    \/ FileExtractUnused
    \/ FileExtractMissing

SpecLegacy == InitLegacy /\ [][NextLegacy]_vars

(***************************************************************************)
(* The driver: app::run (app.cpp)                                          *)
(***************************************************************************)
MaxFiles == 2

\* The loop of CodeParser::CodeParser over the first n lines: the three
\* containers it has filled.
RECURSIVE ScanLines(_, _)
ScanLines(read, n) ==
    IF n = 0 THEN
        [temp_includes_with_functions |-> <<>>, bare_includes |-> <<>>,
         temp_std_entities |-> <<>>]
    ELSE
        LET before == ScanLines(read, n - 1)
            p == ParseLine(read[n].text)
            inc == p.line_contains_include
            ids == p.std_identifiers
        IN  IF p.skip THEN before
            ELSE IF IsIncludeWithFunctions(inc, ids) THEN
                [before EXCEPT !.temp_includes_with_functions =
                    Append(@, IncludeWithUnusedFunctions(read[n].number,
                                                         read[n].text, ids))]
            ELSE IF IsBareInclude(inc, ids) THEN
                [before EXCEPT !.bare_includes =
                    Append(@, BareInclude(read[n].number, read[n].text,
                                          p.include_directive))]
            ELSE IF IsUsage(inc, ids) THEN
                [before EXCEPT !.temp_std_entities =
                    @ \o Entities(read[n].number, read[n].text, ids)]
            ELSE before

\* const modules::analyze::CodeParser parser(path): the getters' values, or
\* the exception of read_lines
CodeParser(path_kind, content) ==
    {IF r.ok
     THEN LET scanned == ScanLines(r.lines, Len(r.lines))
          IN  [ok |-> TRUE, what |-> "",
               bare_includes |-> scanned.bare_includes,
               unused_functions |->
                   UnusedFunctionsOf(scanned.temp_includes_with_functions,
                                     UsedStdIdentifiers(scanned.temp_std_entities)),
               unlisted_functions |->
                   UnlistedFunctionsOf(
                       scanned.temp_std_entities,
                       FunctionsInIncludeDirectives(
                           scanned.temp_includes_with_functions))]
     ELSE [ok |-> FALSE, what |-> r.what, bare_includes |-> <<>>,
           unused_functions |-> <<>>, unlisted_functions |-> <<>>]
     : r \in read_lines(path_kind, content)}

\* One insertion into oss: the format string and the number it is given
\* (entry.number, or the size of a sequence).
Chunk(what, number) == [what |-> what, number |-> number]

HeaderChunk == Chunk("##- {} -##", 0)
SeparatorChunk == Chunk("----------", 0)

\* A for loop over the entries of a result sequence, each inserting these
\* format strings.
RECURSIVE CollectEntries(_, _)
CollectEntries(entries, formats) ==
    IF entries = <<>> THEN <<>>
    ELSE [f \in 1..Len(formats) |-> Chunk(formats[f], Head(entries).number)]
         \o CollectEntries(Tail(entries), formats)

\* One of the three sections of the report
CollectSection(entries, title, enabled, formats, disabled) ==
    IF entries # <<>>
    THEN <<Chunk(title, 0)>>
         \o (IF enabled THEN CollectEntries(entries, formats)
             ELSE <<Chunk(disabled, Len(entries))>>)
    ELSE <<>>

\* A condition that would also hold when every finding is in a disabled
\* category.
NothingEnabledFound(parser, enable) ==
    /\ (parser.bare_includes = <<>> \/ ~enable.bare)
    /\ (parser.unused_functions = <<>> \/ ~enable.unused)
    /\ (parser.unlisted_functions = <<>> \/ ~enable.unlisted)

\* The condition of "If nothing found, print OK"; it does not read args.
NothingFound(parser, enable) ==
    /\ parser.bare_includes = <<>>
    /\ parser.unused_functions = <<>>
    /\ parser.unlisted_functions = <<>>

\* The body of process_file from the getters to the separator: oss.str()
process_file_oss(parser, enable) ==
    <<HeaderChunk>>
    \o CollectSection(parser.bare_includes, "-- 1) BARE INCLUDES --",
                      enable.bare,
                      <<"{}| {}", "-> Bare include directive.",
                        "-> Add a comment to '{}'">>,
                      "-> Disabled, but found {} bare include directives.")
    \o CollectSection(parser.unused_functions, "-- 2) UNUSED FUNCTIONS --",
                      enable.unused,
                      <<"{}| {}", "-> Unused functions listed as comments.",
                        "-> Remove '{}' comments from '{}'.">>,
                      "-> Disabled, but found {} unused functions.")
    \o CollectSection(parser.unlisted_functions, "-- 3) UNLISTED FUNCTIONS --",
                      enable.unlisted,
                      <<"{}| {}", "-> Unlisted function.",
                        "-> Add '{}' as a comment", "-> Reference: {}">>,
                      "-> Disabled, but found {} unlisted functions.")
    \o (IF NothingFound(parser, enable)
        THEN <<Chunk("-> OK.", 0)>> ELSE <<>>)
    \o <<SeparatorChunk>>

\* The paths given on the command line, and what is at each of them.
Paths == {"ok.cpp", "findings.cpp", "missing.cpp"}
OnDisk(path) ==
    CASE path = "ok.cpp" -> [kind |-> "regular", disk |-> <<LineEmpty>>]
      [] path = "findings.cpp" ->
            [kind |-> "regular",
             disk |-> <<LineBare, LineAnnotatedC, LineUseA>>]
      [] path = "missing.cpp" -> [kind |-> "missing", disk |-> <<>>]

EnableValues ==
    [bare : BOOLEAN, unused : BOOLEAN, unlisted : BOOLEAN,
     multithreading : BOOLEAN]

\* What process_file does with each path under each value of args.enable.
Parsers == [path \in Paths |-> CodeParser(OnDisk(path).kind, OnDisk(path).disk)]

filepaths_len == Len(args.filepaths)

\* The parser of a finished run is not under construction.
NoParser ==
    /\ kind = "regular"
    /\ disk = <<>>
    /\ pc = "idle"
    /\ lines = <<>>
    /\ i = 1
    /\ temp_includes_with_functions = <<>>
    /\ temp_std_entities = <<>>
    /\ bare_includes = <<>>
    /\ unused_functions = <<>>
    /\ unlisted_functions = <<>>
    /\ error = ""
    /\ globals = DefaultGlobals
    /\ temp_functions = <<>>
    /\ missing_functions = <<>>

InitApp ==
    /\ NoParser
    /\ NoCall
    /\ args \in {[filepaths |-> f, enable |-> e] :
                    f \in UNION {[1..n -> Paths] : n \in 0..MaxFiles},
                    e \in EnableValues}
    /\ run_pc = "start"
    /\ path_index = 1
    /\ task = [t \in 1..filepaths_len |-> "idle"]
    /\ oss = [t \in 1..filepaths_len |-> <<>>]
    /\ written = [t \in 1..filepaths_len |-> 0]
    /\ stream_mutex = 0
    /\ console = <<>>
    /\ thrown = [t \in 1..filepaths_len |-> ""]
    /\ run_error = ""

\* What is written to the standard output: the chunk and the call of
\* process_file it comes from (0 for app::run itself).
Written(t, chunk) == [file |-> t, what |-> chunk.what, number |-> chunk.number]

\* The two fmt::print of app::run, and the choice of the branch
RunBegin ==
    /\ run_pc = "start"
    /\ console' = console \o <<Written(0, Chunk("Analyzing {} files: [{}]",
                                                filepaths_len)),
                               Written(0, SeparatorChunk)>>
    /\ run_pc' = IF filepaths_len < 2 \/ ~args.enable.multithreading
                 THEN (IF filepaths_len = 0 THEN "returned" ELSE "inline")
                 ELSE "submit"
    /\ UNCHANGED <<engineVars, legacyVars, utilVars, args, path_index, task, oss,
                   written, stream_mutex, thrown, run_error>>

\* Sequential processing: process_file(path) is called
InlineCall ==
    /\ run_pc = "inline"
    /\ task[path_index] = "idle"
    /\ task' = [task EXCEPT ![path_index] = "called"]
    /\ UNCHANGED <<engineVars, legacyVars, utilVars, args, run_pc, path_index, oss,
                   written, stream_mutex, console, thrown, run_error>>

\* Sequential processing: process_file(path) returns, or its exception
\* leaves the loop and app::run
InlineReturn ==
    /\ run_pc = "inline"
    /\ task[path_index] \in {"done", "failed"}
    /\ IF task[path_index] = "failed"
       THEN /\ run_pc' = "thrown"
            /\ run_error' = thrown[path_index]
            /\ UNCHANGED path_index
       ELSE /\ run_pc' = IF path_index = filepaths_len
                         THEN "returned" ELSE "inline"
            /\ path_index' = path_index + 1
            /\ UNCHANGED run_error
    /\ UNCHANGED <<engineVars, legacyVars, utilVars, args, task, oss, written,
                   stream_mutex, console, thrown>>

\* futures.emplace_back(pool.submit_task(...))
SubmitTask ==
    /\ run_pc = "submit"
    /\ task' = [task EXCEPT ![path_index] = "called"]
    /\ IF path_index = filepaths_len
       THEN /\ run_pc' = "get"
            /\ path_index' = 1
       ELSE /\ run_pc' = "submit"
            /\ path_index' = path_index + 1
    /\ UNCHANGED <<engineVars, legacyVars, utilVars, args, oss, written, stream_mutex,
                   console, thrown, run_error>>

\* futures.get(): each future in turn, rethrowing the exception it holds
FuturesGet ==
    /\ run_pc = "get"
    /\ task[path_index] \in {"done", "failed"}
    /\ IF task[path_index] = "failed"
       THEN /\ run_pc' = "destroy"
            /\ run_error' = thrown[path_index]
            /\ UNCHANGED path_index
       ELSE /\ run_pc' = IF path_index = filepaths_len THEN "destroy" ELSE "get"
            /\ path_index' = path_index + 1
            /\ UNCHANGED run_error
    /\ UNCHANGED <<engineVars, legacyVars, utilVars, args, task, oss, written,
                   stream_mutex, console, thrown>>

\* A destructor that would not wait for the tasks.
PoolIsNotAwaited == TRUE

\* What the destructor of the pool waits for: no task is queued or running.
PoolIsIdle == \A t \in 1..filepaths_len : task[t] \in {"done", "failed"}

\* The end of the scope of BS::thread_pool pool: its destructor waits for
\* the tasks, then app::run returns or the exception of get leaves it.
PoolDestroy ==
    /\ run_pc = "destroy"
    /\ PoolIsIdle
    /\ run_pc' = IF run_error = "" THEN "returned" ELSE "thrown"
    /\ UNCHANGED <<engineVars, legacyVars, utilVars, args, path_index, task, oss,
                   written, stream_mutex, console, thrown, run_error>>

\* A process_file that would print the header before it constructs the
\* parser.
ProcessFileHeaderFirst(t) ==
    /\ task[t] = "called"
    /\ \E parser \in Parsers[args.filepaths[t]] :
          IF parser.ok
          THEN /\ oss' = [oss EXCEPT ![t] = process_file_oss(parser, args.enable)]
               /\ task' = [task EXCEPT ![t] = "built"]
               /\ UNCHANGED <<thrown, console>>
          ELSE /\ thrown' = [thrown EXCEPT ![t] = parser.what]
               /\ task' = [task EXCEPT ![t] = "failed"]
               /\ console' = Append(console, Written(t, HeaderChunk))
               /\ UNCHANGED oss
    /\ UNCHANGED <<engineVars, legacyVars, utilVars, args, run_pc, path_index, written,
                   stream_mutex, run_error>>

\* process_file up to sync_out.print: the report is built in oss, or the
\* constructor of the parser throws
ProcessFile(t) ==
    /\ task[t] = "called"
    /\ \E parser \in Parsers[args.filepaths[t]] :
          IF parser.ok
          THEN /\ oss' = [oss EXCEPT ![t] = process_file_oss(parser, args.enable)]
               /\ task' = [task EXCEPT ![t] = "built"]
               /\ UNCHANGED thrown
          ELSE /\ thrown' = [thrown EXCEPT ![t] = parser.what]
               /\ task' = [task EXCEPT ![t] = "failed"]
               /\ UNCHANGED oss
    /\ UNCHANGED <<engineVars, legacyVars, utilVars, args, run_pc, path_index, written,
                   stream_mutex, console, run_error>>

\* A print that would not wait for the mutex of the stream.
MutexIsIgnored(t) == TRUE

\* BS::synced_stream::print takes the mutex of the stream only when nobody
\* holds it.
MutexIsFree(t) == stream_mutex = 0

\* sync_out.print(oss.str()): the lock is taken
PrintLock(t) ==
    /\ task[t] = "built"
    /\ MutexIsFree(t)
    /\ stream_mutex' = t
    /\ task' = [task EXCEPT ![t] = "printing"]
    /\ UNCHANGED <<engineVars, legacyVars, utilVars, args, run_pc, path_index, oss,
                   written, console, thrown, run_error>>

\* sync_out.print(oss.str()): the next part of the string reaches the output
PrintWrite(t) ==
    /\ task[t] = "printing"
    /\ written[t] < Len(oss[t])
    /\ console' = Append(console, Written(t, oss[t][written[t] + 1]))
    /\ written' = [written EXCEPT ![t] = @ + 1]
    /\ UNCHANGED <<engineVars, legacyVars, utilVars, args, run_pc, path_index, task,
                   oss, stream_mutex, thrown, run_error>>

\* sync_out.print(oss.str()): the lock is released and process_file returns
PrintUnlock(t) ==
    /\ task[t] = "printing"
    /\ written[t] = Len(oss[t])
    /\ stream_mutex' = 0
    /\ task' = [task EXCEPT ![t] = "done"]
    /\ UNCHANGED <<engineVars, legacyVars, utilVars, args, run_pc, path_index, oss,
                   written, console, thrown, run_error>>

NextApp ==
    \/ RunBegin
    \/ InlineCall
    \/ InlineReturn
    \/ SubmitTask
    \/ FuturesGet
    \/ PoolDestroy
    \/ \E t \in 1..filepaths_len : ProcessFile(t)
    \/ \E t \in 1..filepaths_len : PrintLock(t)
    \/ \E t \in 1..filepaths_len : PrintWrite(t)
    \/ \E t \in 1..filepaths_len : PrintUnlock(t)

SpecApp == InitApp /\ [][NextApp]_vars

(***************************************************************************)
(* core::string::create_cpp_reference_link on its own                      *)
(***************************************************************************)
MaxName == 3

\* The names the function is called with: every string of a few characters,
\* some of the encoding table and some not, and the name of the tests.
NameChars == {":", " ", "=", "%", "s", "_"}
StdSort == StdPrefix \o <<"s", "o", "r", "t">>
\* Names that already hold the encoded form of a character, and symbols as
\* std_identifier_regex produces them.
PercentNames == {<<"%", "2", "0">>, <<"%", "3", "A">>, <<"%", "3", "d">>}
EngineNames ==
    {StdPrefix \o w : w \in UNION {[1..n -> {"s", "_", "3"}] : n \in 1..2}}
Names ==
    UNION {[1..n -> NameChars] : n \in 0..MaxName}
        \cup {StdSort} \cup PercentNames \cup EngineNames

InitLink ==
    /\ NoParser
    /\ NoRun
    /\ NoMain
    /\ symbol_name \in Names
    /\ link = <<>>
    /\ link_pc = "call"
    /\ argv = <<>>
    /\ args_ = <<>>
    /\ positional_args = <<>>
    /\ args_pc = "idle"

\* A call of create_cpp_reference_link(name), the first or a later one
CreateLink ==
    /\ link_pc \in {"call", "returned"}
    /\ link' = create_cpp_reference_link(symbol_name)
    /\ link_pc' = "returned"
    /\ UNCHANGED <<engineVars, legacyVars, appVars, symbol_name, argv, args_,
                   positional_args, args_pc, mainVars>>

NextLink == CreateLink

SpecLink == InitLink /\ [][NextLink]_vars

(***************************************************************************)
(* core::args::ArgParser                                                   *)
(***************************************************************************)
MaxArgs == 2

\* The arguments of the command line, and the command lines of the program.
ArgValues ==
    {<<>>, <<"-">>, <<"-", "h">>, <<"-", "-">>, <<"-", "-", "v">>, <<"a">>,
     <<"a", "-", "b">>, <<"b", "c">>}
ProgramName == <<".", "/", "h", "w">>
CommandLines ==
    {<<ProgramName>> \o a : a \in UNION {[1..n -> ArgValues] : n \in 0..MaxArgs}}

\* The lambda of std::copy_if
IsPositional(arg) ==
    arg = <<>> \/ (arg[1] # "-" /\ ~(Len(arg) > 1 /\ arg[2] = "-"))

get_positional_arguments(arguments) ==
    SelectSeq(arguments, IsPositional)

InitArgs ==
    /\ NoParser
    /\ NoRun
    /\ NoMain
    /\ symbol_name = <<>>
    /\ link = <<>>
    /\ link_pc = "idle"
    /\ argv \in CommandLines
    /\ args_ = <<>>
    /\ positional_args = <<>>
    /\ args_pc = "main"

\* ArgParser::ArgParser(argc, argv)
ArgParser ==
    /\ args_pc = "main"
    /\ args_' = Tail(argv)
    /\ args_pc' = "parsed"
    /\ UNCHANGED <<engineVars, legacyVars, appVars, symbol_name, link, link_pc,
                   argv, positional_args, mainVars>>

\* files = parser.get_positional_arguments()
GetPositionalArguments ==
    /\ args_pc = "parsed"
    /\ positional_args' = get_positional_arguments(args_)
    /\ args_pc' = "done"
    /\ UNCHANGED <<engineVars, legacyVars, appVars, symbol_name, link, link_pc,
                   argv, args_, mainVars>>

NextArgs ==
    \/ ArgParser
    \/ GetPositionalArguments

SpecArgs == InitArgs /\ [][NextArgs]_vars

(***************************************************************************)
(* main (main.cpp)                                                         *)
(***************************************************************************)
\* The options main looks for, and the file names of the command lines.
ArgH == <<"-", "h">>
ArgHelp == <<"-", "-", "h", "e", "l", "p">>
ArgV == <<"-", "v">>
ArgVerbose == <<"-", "-", "v", "e", "r", "b", "o", "s", "e">>
ArgDisableBare == <<"-", "-", "d", "i", "s", "a", "b", "l", "e", "-", "b", "a", "r", "e">>
ArgDisableUnused == <<"-", "-", "d", "i", "s", "a", "b", "l", "e", "-", "u", "n", "u", "s", "e", "d">>
ArgDisableUnlisted == <<"-", "-", "d", "i", "s", "a", "b", "l", "e", "-", "u", "n", "l", "i", "s", "t", "e", "d">>
FileOk == <<"o", "k">>
FileMissing == <<"n", "o">>
FileDashed == <<"a", "-", "b">>

MainArgValues ==
    {ArgH, ArgHelp, ArgV, ArgVerbose, ArgDisableBare, ArgDisableUnused,
     ArgDisableUnlisted, FileOk, FileMissing, FileDashed}
MainCommandLines ==
    {<<ProgramName>> \o a : a \in UNION {[1..n -> MainArgValues] : n \in 0..MaxArgs}}

\* ArgParser::contains(arg) and contains(short_arg, long_arg)
contains(arguments, arg) == \E k \in 1..Len(arguments) : arguments[k] = arg
\* A search that would look for the short form only.
contains_short_only(arguments, short_arg, long_arg) ==
    contains(arguments, short_arg)

contains_any(arguments, short_arg, long_arg) ==
    contains(arguments, short_arg) \/ contains(arguments, long_arg)

\* How app::run(files) is left: by the exception of a file that cannot be
\* read, in the inline loop or from futures.get(), or by its return.
RunOutcome(file_paths) ==
    IF \E k \in 1..Len(file_paths) : file_paths[k] = FileMissing
    THEN "thrown" ELSE "returned"

InitMain ==
    /\ NoParser
    /\ NoRun
    /\ symbol_name = <<>>
    /\ link = <<>>
    /\ link_pc = "idle"
    /\ argv \in MainCommandLines
    /\ args_ = <<>>
    /\ positional_args = <<>>
    /\ args_pc = "idle"
    /\ main_pc = "start"
    /\ files = <<>>
    /\ verbose = FALSE
    /\ exit_status = ""

\* const core::args::ArgParser parser(argc, argv), or the std::bad_alloc of
\* one of its allocations
MainParse ==
    /\ main_pc = "start"
    /\ \/ /\ args_' = Tail(argv)
          /\ main_pc' = "parsed"
          /\ UNCHANGED run_error
       \/ /\ main_pc' = "caught"
          /\ run_error' = "std::bad_alloc"
          /\ UNCHANGED args_
    /\ UNCHANGED <<engineVars, legacyVars, args, run_pc, path_index, task, oss,
                   written, stream_mutex, console, thrown, symbol_name, link,
                   link_pc, argv, positional_args, args_pc, files, verbose,
                   exit_status>>

\* The scope of the parser: help, the positional arguments, the flags
MainArguments ==
    /\ main_pc = "parsed"
    /\ IF args_ = <<>> \/ contains_any(args_, ArgH, ArgHelp)
       THEN /\ console' = Append(console, Written(0, Chunk("Usage: {}", 0)))
            /\ exit_status' = "EXIT_SUCCESS"
            /\ main_pc' = "exited"
            /\ UNCHANGED <<files, verbose, globals, positional_args>>
       ELSE /\ positional_args' = get_positional_arguments(args_)
            /\ files' = positional_args'
            /\ IF files' = <<>>
               THEN /\ console' = Append(console, Written(0, Chunk("Usage: {}", 0)))
                    /\ exit_status' = "EXIT_FAILURE"
                    /\ main_pc' = "exited"
                    /\ UNCHANGED <<verbose, globals>>
               ELSE /\ verbose' = contains_any(args_, ArgV, ArgVerbose)
                    /\ globals' =
                          [bare |-> IF contains(args_, ArgDisableBare)
                                    THEN FALSE ELSE globals.bare,
                           unused |-> IF contains(args_, ArgDisableUnused)
                                      THEN FALSE ELSE globals.unused,
                           unlisted |-> IF contains(args_, ArgDisableUnlisted)
                                        THEN FALSE ELSE globals.unlisted]
                    /\ main_pc' = "run"
                    /\ UNCHANGED <<console, exit_status>>
    /\ UNCHANGED <<engineVars, temp_functions, missing_functions, args, run_pc,
                   path_index, task, oss, written, stream_mutex, thrown,
                   run_error, symbol_name, link, link_pc, argv, args_, args_pc>>

\* LOG_DEBUG("Processing ..."), then app::run(files)
MainRun ==
    /\ main_pc = "run"
    /\ args' = [args EXCEPT !.filepaths = files]
    /\ run_pc' = RunOutcome(files)
    /\ console' = IF verbose
                  THEN Append(console,
                              Written(0, Chunk("Processing {} file(s)", Len(files))))
                  ELSE console
    /\ IF RunOutcome(files) = "thrown"
       THEN /\ run_error' = "std::runtime_error"
            /\ main_pc' = "caught"
       ELSE /\ main_pc' = "return"
            /\ UNCHANGED run_error
    /\ UNCHANGED <<engineVars, legacyVars, path_index, task, oss, written,
                   stream_mutex, thrown, symbol_name, link, link_pc, argv, args_,
                   positional_args, args_pc, files, verbose, exit_status>>

\* catch (const std::exception &e) and catch (...)
MainCatch ==
    /\ main_pc = "caught"
    /\ console' = Append(console, Written(0, Chunk("LOG_ERROR", 0)))
    /\ exit_status' = "EXIT_FAILURE"
    /\ main_pc' = "exited"
    /\ UNCHANGED <<engineVars, legacyVars, args, run_pc, path_index, task, oss,
                   written, stream_mutex, thrown, run_error, symbol_name, link,
                   link_pc, argv, args_, positional_args, args_pc, files, verbose>>

\* return 0
MainReturn ==
    /\ main_pc = "return"
    /\ exit_status' = "0"
    /\ main_pc' = "exited"
    /\ UNCHANGED <<engineVars, legacyVars, appVars, symbol_name, link, link_pc,
                   argv, args_, positional_args, args_pc, files, verbose>>

NextMain ==
    \/ MainParse
    \/ MainArguments
    \/ MainRun
    \/ MainCatch
    \/ MainReturn

SpecMain == InitMain /\ [][NextMain]_vars

(***************************************************************************)
(* What the text of the file says, line by line (for the properties)       *)
(***************************************************************************)
\* Every line text the specifications draw from, classified once.
Texts == Corpus \cup EdgeCorpus
Classified == [t \in Texts |-> ParseLine(t)]
MatchingCopy == [t \in Texts |-> to_lower(strip_whitespace(t))]

IsDirectiveLine(n) ==
    ~Classified[disk[n]].skip /\ Classified[disk[n]].line_contains_include
IsAnnotatedLine(n) ==
    IsDirectiveLine(n) /\ Classified[disk[n]].std_identifiers # <<>>
IsBareLine(n) ==
    IsDirectiveLine(n) /\ Classified[disk[n]].std_identifiers = <<>>
IsUsageLine(n) ==
    /\ ~Classified[disk[n]].skip
    /\ ~Classified[disk[n]].line_contains_include
    /\ Classified[disk[n]].std_identifiers # <<>>

\* The symbol references of line n, left to right.
SymbolsOn(n) == Classified[disk[n]].std_identifiers

\* The symbols used on the non-directive lines of the whole file.
UsagesOfFile ==
    UNION {Range(SymbolsOn(n)) : n \in {m \in 1..Len(disk) : IsUsageLine(m)}}

\* The symbols listed on the annotated include lines of the whole file.
ListedOfFile ==
    UNION {Range(SymbolsOn(n)) : n \in {m \in 1..Len(disk) : IsAnnotatedLine(m)}}

\* The entries of a result sequence that carry line number n.
EntriesOf(seq, n) == SelectSeq(seq, LAMBDA e : e.number = n)

\* The symbols listed on line n that no line of the file uses, in their order.
NeverUsedOn(n) == SelectSeq(SymbolsOn(n), LAMBDA f : f \notin UsagesOfFile)

\* How often symbol f occurs in the sequence of symbols.
Occurrences(symbols, f) == Cardinality({k \in 1..Len(symbols) : symbols[k] = f})

Finished == pc = "done"

(***************************************************************************)
(* Properties of CodeParser                                                *)
(***************************************************************************)
\* C1: when the constructor has returned, each annotated include line is
\* reported in unused_functions_ with exactly the listed symbols that no
\* line of the file uses, in their listed order and with repeats, and is
\* left out exactly when there is no such symbol; nothing else is reported.
C1_UnusedIsTheNeverUsedSubsequence ==
    Finished =>
        /\ \A n \in 1..Len(disk) :
              IsAnnotatedLine(n) =>
                  IF NeverUsedOn(n) = <<>>
                  THEN EntriesOf(unused_functions, n) = <<>>
                  ELSE /\ Len(EntriesOf(unused_functions, n)) = 1
                       /\ EntriesOf(unused_functions, n)[1].unused_functions
                              = NeverUsedOn(n)
        /\ \A k \in 1..Len(unused_functions) :
              /\ unused_functions[k].number \in 1..Len(disk)
              /\ IsAnnotatedLine(unused_functions[k].number)

\* An include that lists a symbol twice and another symbol that is used on
\* an earlier line: the repeated symbol is reported twice, the used one not.
C1_Witness ==
    /\ Finished
    /\ \E n \in 1..Len(disk) :
          /\ IsAnnotatedLine(n)
          /\ Len(NeverUsedOn(n)) = 2
          /\ NeverUsedOn(n)[1] = NeverUsedOn(n)[2]
          /\ Len(SymbolsOn(n)) = 3
          /\ \E m \in 1..(n - 1) : IsUsageLine(m) /\ SymbolsOn(n)[2] \in Range(SymbolsOn(m))
          /\ Len(EntriesOf(unused_functions, n)) = 1

\* C2: when the constructor has returned, unlisted_functions_ holds, for
\* each usage line and each symbol, no finding if some include of the file
\* lists the symbol, and else as many findings as the symbol has occurrences
\* on that line; lines that are not usage lines have no finding.
C2_OneFindingPerUnlistedOccurrence ==
    Finished =>
        \A n \in 1..Len(disk) :
            /\ ~IsUsageLine(n) => EntriesOf(unlisted_functions, n) = <<>>
            /\ IsUsageLine(n) =>
                  \A f \in Range(SymbolsOn(n))
                           \cup {e.function : e \in Range(EntriesOf(unlisted_functions, n))} :
                      Cardinality({k \in 1..Len(unlisted_functions) :
                                      /\ unlisted_functions[k].number = n
                                      /\ unlisted_functions[k].function = f})
                        = IF f \in ListedOfFile THEN 0
                          ELSE Occurrences(SymbolsOn(n), f)

\* An unlisted symbol used twice on one line and once more on another line
\* gives three findings, while a used symbol that an include lists gives none.
C2_Witness ==
    /\ Finished
    /\ \E n, m \in 1..Len(disk) : \E f \in UsagesOfFile :
          /\ n # m
          /\ IsUsageLine(n) /\ Occurrences(SymbolsOn(n), f) = 2
          /\ IsUsageLine(m) /\ Occurrences(SymbolsOn(m), f) = 1
          /\ Cardinality({k \in 1..Len(unlisted_functions) :
                            unlisted_functions[k].function = f}) = 3
    /\ \E n \in 1..Len(disk) :
          /\ IsUsageLine(n)
          /\ Range(SymbolsOn(n)) \cap ListedOfFile # {}
          /\ Range(SymbolsOn(n)) \ ListedOfFile # {}

\* The numbers of the lines that contributed to a sequence.
NumbersIn(seq) == {seq[k].number : k \in 1..Len(seq)}

\* C3: at every point of the scan, each line already visited contributed to
\* at most one of bare_includes_, temp_includes_with_functions and
\* temp_std_entities, and to the one its text calls for: a directive line
\* never contributes usages, and a line that is none of the three classes
\* contributes nothing.
C3_ClassificationIsExclusive ==
    pc \in {"scan", "unlisted", "done"} =>
        \A n \in 1..Len(lines) :
            /\ (n \in NumbersIn(bare_includes)) = (n < i /\ IsBareLine(n))
            /\ (n \in NumbersIn(temp_includes_with_functions))
                  = (n < i /\ IsAnnotatedLine(n))
            /\ (n \in NumbersIn(temp_std_entities)) = (n < i /\ IsUsageLine(n))
            /\ Cardinality({c \in {"bare", "annotated", "usage"} :
                   \/ c = "bare" /\ n \in NumbersIn(bare_includes)
                   \/ c = "annotated" /\ n \in NumbersIn(temp_includes_with_functions)
                   \/ c = "usage" /\ n \in NumbersIn(temp_std_entities)}) <= 1
            /\ Len(EntriesOf(bare_includes, n)) <= 1
            /\ Len(EntriesOf(temp_includes_with_functions, n)) <= 1

\* A file with a bare include, an annotated include and a usage line, all
\* scanned.
C3_Witness ==
    /\ Finished
    /\ bare_includes # <<>>
    /\ temp_includes_with_functions # <<>>
    /\ temp_std_entities # <<>>

\* The line numbers of a sequence never go down.
Ascending(seq) ==
    \A k \in 1..(Len(seq) - 1) : seq[k].number <= seq[k + 1].number

\* C9: each of the three result sequences is in ascending line order, the
\* two include sequences with one entry a line, and the unlisted findings
\* of one line name that line's unlisted symbols from left to right.
C9_ResultsInScanOrder ==
    /\ Ascending(bare_includes)
    /\ Ascending(unused_functions)
    /\ Ascending(unlisted_functions)
    /\ \A k \in 1..(Len(bare_includes) - 1) :
          bare_includes[k].number < bare_includes[k + 1].number
    /\ \A k \in 1..(Len(unused_functions) - 1) :
          unused_functions[k].number < unused_functions[k + 1].number
    /\ Finished =>
          \A n \in 1..Len(disk) :
              IsUsageLine(n) =>
                  [k \in 1..Len(EntriesOf(unlisted_functions, n)) |->
                      EntriesOf(unlisted_functions, n)[k].function]
                    = SelectSeq(SymbolsOn(n), LAMBDA f : f \notin ListedOfFile)

\* Two findings for two different symbols of one line, followed by a finding
\* of a later line.
C9_Witness ==
    /\ Finished
    /\ \E k \in 1..(Len(unlisted_functions) - 2) :
          /\ unlisted_functions[k].number = unlisted_functions[k + 1].number
          /\ unlisted_functions[k].function # unlisted_functions[k + 1].function
          /\ unlisted_functions[k + 1].number < unlisted_functions[k + 2].number

\* The symbol occurs in the text as a run of consecutive characters.
OccursIn(symbol, text) ==
    \E k \in 1..Len(text) : HasPrefixAt(text, k, symbol)

NoUpperCase(str) == \A k \in 1..Len(str) : ~isupper(str[k])

\* C10: every finding carries the number of a line of the file and the text
\* of that line exactly as it is on disk; the header of a bare include and
\* the symbols of the findings are pieces of the trimmed, lower-cased copy
\* of that text; the lines the loader delivered are never changed.
C10_FindingsCarryTheOriginalLine ==
    /\ pc \in {"scan", "unlisted", "done"} => lines = NumberLines(disk)
    /\ \A e \in Range(bare_includes) \cup Range(unused_functions)
                \cup Range(unlisted_functions)
                \cup Range(temp_includes_with_functions)
                \cup Range(temp_std_entities) :
          /\ e.number \in 1..Len(disk)
          /\ e.text = disk[e.number]
    /\ \A e \in Range(bare_includes) :
          /\ HasPrefixAt(MatchingCopy[e.text], 1, e.header)
          /\ e.header # <<>>
          /\ NoUpperCase(e.header)
    /\ \A e \in Range(unused_functions) :
          \A f \in Range(e.unused_functions) :
              OccursIn(f, MatchingCopy[e.text]) /\ NoUpperCase(f)
    /\ \A e \in Range(unlisted_functions) :
          OccursIn(e.function, MatchingCopy[e.text]) /\ NoUpperCase(e.function)

\* An include finding and an unlisted finding whose lines have upper-case
\* letters and surrounding whitespace that the matching copy has not.
C10_Witness ==
    /\ Finished
    /\ \E e \in Range(unused_functions) :
          /\ e.text # MatchingCopy[e.text]
          /\ Len(e.text) > Len(MatchingCopy[e.text])
          /\ ~NoUpperCase(e.text)
    /\ \E e \in Range(unlisted_functions) :
          /\ Len(e.text) > Len(MatchingCopy[e.text])
          /\ ~NoUpperCase(e.text)
          /\ ~OccursIn(e.function, e.text)

\* C5: on a path that is not a readable regular file the constructor fails:
\* it never reaches the scan, and no parser with result sequences exists.
C5_InvalidPathFails ==
    kind # "regular" => pc \in {"load", "failed"}

(***************************************************************************)
(* Properties of io::disk::File                                            *)
(***************************************************************************)
\* C4: once the lines of a file are loaded, classifying and reconciling
\* them never fails, whatever the lines are.
C4_AnalysisNeverFails ==
    kind = "regular" => pc # "failed"

\* C8: the engine computes the three result sequences whatever the flags
\* are: when the constructor has returned, every bare include line of the
\* file is in bare_includes_, and unused_functions_ and missing_functions_
\* are what the two passes compute.
C8_ResultsDoNotDependOnFlags ==
    (pc = "done" /\ kind = "regular") =>
        /\ {bare_includes[k].line.number : k \in 1..Len(bare_includes)}
              = {n \in 1..Len(disk) : IsBareLine(n)}
        /\ unused_functions =
              FileUnusedFunctionsOf(temp_includes_with_functions, temp_functions)
        /\ missing_functions =
              FileMissingFunctionsOf(
                  temp_functions,
                  FileFunctionsInIncludeDirectives(temp_includes_with_functions))

(***************************************************************************)
(* Properties of app::run                                                  *)
(***************************************************************************)
RunIsOver == run_pc \in {"returned", "thrown"}
IsReadable(t) == OnDisk(args.filepaths[t]).kind = "regular"
IsReported(t) ==
    \E a \in 1..Len(console) :
        console[a].file = t /\ console[a].what = SeparatorChunk.what

\* C6: when app::run returns or throws, the report of every readable file of
\* the batch has been produced, whichever files of the batch failed, and
\* whether the batch ran inline or on the pool.
C6_EveryReadableFileIsReported ==
    RunIsOver => \A t \in 1..filepaths_len : IsReadable(t) => IsReported(t)

\* The chunks of one call of process_file are next to each other.
Contiguous ==
    \A a, b, c \in 1..Len(console) :
        (a < b /\ b < c /\ console[a].file = console[c].file)
            => console[b].file = console[a].file

\* Each block goes from its header to its separator.
BlocksAreWhole ==
    \A a \in 1..Len(console) :
        console[a].file # 0 =>
            /\ (a = 1 \/ console[a - 1].file # console[a].file)
                  <=> console[a].what = HeaderChunk.what
            /\ (a < Len(console) /\ console[a + 1].file # console[a].file)
                  => console[a].what = SeparatorChunk.what

\* C7: the output never interleaves the reports of two files: the report of
\* each file, from its header to its separator, is one contiguous block,
\* under every interleaving of the workers.
C7_ReportsAreNotInterleaved == Contiguous /\ BlocksAreWhole

\* C7 witness: a batch on the pool has returned with the whole reports of two
\* files written, the second path's before the first's, one of them with
\* findings.
C7_Witness ==
    /\ run_pc = "returned"
    /\ args.enable.multithreading
    /\ filepaths_len >= 2
    /\ \E a, b \in 1..Len(console) :
          /\ a < b
          /\ console[a].file = 2 /\ console[a].what = SeparatorChunk.what
          /\ console[b].file = 1 /\ console[b].what = HeaderChunk.what
    /\ \E t \in 1..filepaths_len : Len(oss[t]) > 3

(***************************************************************************)
(* Properties of the classifier                                            *)
(***************************************************************************)
\* The text with every upper-case letter replaced by its lower-case letter.
CaseFold(str) ==
    [k \in 1..Len(str) |->
        IF \E j \in 1..26 : UpperChars[j] = str[k]
        THEN LowerChars[CHOOSE j \in 1..26 : UpperChars[j] = str[k]]
        ELSE str[k]]

\* What a parser reports, without the text of the lines.
ReportedBare(seq) ==
    [k \in 1..Len(seq) |-> [number |-> seq[k].number, header |-> seq[k].header]]
ReportedUnused(seq) ==
    [k \in 1..Len(seq) |->
        [number |-> seq[k].number, unused_functions |-> seq[k].unused_functions]]
ReportedUnlisted(seq) ==
    [k \in 1..Len(seq) |->
        [number |-> seq[k].number, function |-> seq[k].function,
         link |-> seq[k].link]]

\* C11: matching is case-insensitive: the parser of a file reports what the
\* parser of the same file written in lower case reports (same bare
\* includes and headers, same unused symbols, same unlisted symbols and
\* links, line by line), every reported symbol is lower-case and every
\* unlisted finding has a non-empty link.
C11_MatchingIgnoresCase ==
    (Finished /\ kind = "regular") =>
        /\ \A r \in CodeParser("regular", [n \in 1..Len(disk) |-> CaseFold(disk[n])]) :
              /\ r.ok
              /\ ReportedBare(r.bare_includes) = ReportedBare(bare_includes)
              /\ ReportedUnused(r.unused_functions) = ReportedUnused(unused_functions)
              /\ ReportedUnlisted(r.unlisted_functions)
                    = ReportedUnlisted(unlisted_functions)
        /\ \A e \in Range(unlisted_functions) :
              NoUpperCase(e.function) /\ e.link # <<>>
        /\ \A e \in Range(unused_functions) :
              \A f \in Range(e.unused_functions) : NoUpperCase(f)

\* C11 witness: a symbol listed in upper case covers a usage in lower case
\* (no finding for it), and a usage in upper case is reported in lower case
\* with its link.
C11_Witness ==
    /\ Finished
    /\ \E n, m \in 1..Len(disk) :
          /\ IsAnnotatedLine(n) /\ IsUsageLine(m)
          /\ \E f \in Range(SymbolsOn(n)) \cap Range(SymbolsOn(m)) :
                /\ ~OccursIn(f, disk[n]) /\ OccursIn(f, disk[m])
                /\ \A e \in Range(unlisted_functions) : e.function # f
                /\ \A e \in Range(unused_functions) :
                      f \notin Range(e.unused_functions)
    /\ \E e \in Range(unlisted_functions) :
          /\ ~OccursIn(e.function, e.text)
          /\ OccursIn(e.function, CaseFold(e.text))
          /\ e.link = create_cpp_reference_link(e.function)

\* The trimmed text starts with //, starts with /*, or has * first.
IsCommentText(text) ==
    LET trimmed == strip_whitespace(text)
    IN  \/ HasPrefixAt(trimmed, 1, <<"/", "/">>)
        \/ HasPrefixAt(trimmed, 1, <<"/", "*">>)
        \/ HasPrefixAt(trimmed, 1, <<"*">>)

\* The file with its comment lines emptied.
WithoutCommentLines ==
    [n \in 1..Len(disk) |-> IF IsCommentText(disk[n]) THEN <<>> ELSE disk[n]]

\* C12: a line whose trimmed text starts with //, with /* or with * yields
\* no entry in any container, and the three results are those of the file
\* with these lines emptied: what such a line lists or uses counts for
\* nothing.
C12_CommentLinesContributeNothing ==
    /\ \A e \in Range(bare_includes) \cup Range(unused_functions)
                \cup Range(unlisted_functions)
                \cup Range(temp_includes_with_functions)
                \cup Range(temp_std_entities) :
          ~IsCommentText(e.text)
    /\ (Finished /\ kind = "regular") =>
          \A r \in CodeParser("regular", WithoutCommentLines) :
              /\ r.ok
              /\ r.bare_includes = bare_includes
              /\ r.unused_functions = unused_functions
              /\ r.unlisted_functions = unlisted_functions

\* C12 witness: a commented-out include that lists a symbol, a line that
\* uses this symbol and is reported for it, and a comment line of another
\* kind with a symbol on it.
C12_Witness ==
    /\ Finished
    /\ \E n, m, c \in 1..Len(disk) :
          /\ HasPrefixAt(strip_whitespace(disk[n]), 1, <<"/", "/">> \o IncludeKeyword)
          /\ IsUsageLine(m)
          /\ \E e \in Range(unlisted_functions) :
                e.number = m /\ OccursIn(e.function, disk[n])
          /\ ~HasPrefixAt(strip_whitespace(disk[c]), 1, <<"/", "/">>)
          /\ IsCommentText(disk[c])
          /\ OccursIn(StdPrefix, disk[c])

\* What the text of a line says, read off its characters: the trimmed,
\* lower-case text, its parts before and from the first //, and the symbols
\* written in it.
Copy(text) == CaseFold(strip_whitespace(text))
BeforeComment(text) ==
    IF Find(text, <<"/", "/">>) = 0 THEN text
    ELSE SubSeq(text, 1, Find(text, <<"/", "/">>) - 1)
FromComment(text) ==
    IF Find(text, <<"/", "/">>) = 0 THEN <<>>
    ELSE SubSeq(text, Find(text, <<"/", "/">>), Len(text))
Symbols == {StdPrefix \o <<c>> : c \in {"a", "b", "c"}}
RefersAt(text, f) ==
    {k \in 1..Len(text) :
        /\ HasPrefixAt(text, k, f)
        /\ (k + Len(f) > Len(text) \/ ~IsWordChar(text[k + Len(f)]))}
CountRefs(text, f) == Cardinality(RefersAt(text, f))

\* text[k..e] reads #include, whitespace or none, <, one or more characters
\* that are not whitespace, >.
MatchesDirective(text, k, e) ==
    /\ HasPrefixAt(text, k, IncludeKeyword)
    /\ e <= Len(text)
    /\ text[e] = ">"
    /\ \E lt \in (k + Len(IncludeKeyword))..(e - 2) :
          /\ text[lt] = "<"
          /\ \A j \in (k + Len(IncludeKeyword))..(lt - 1) : isspace(text[j])
          /\ \A j \in (lt + 1)..(e - 1) : ~isspace(text[j])

\* The line is not a comment line and its trimmed text begins with a
\* directive.
IsDirectiveText(text) ==
    /\ text # <<>>
    /\ ~IsCommentText(text)
    /\ \E e \in 1..Len(Copy(text)) : MatchesDirective(Copy(text), 1, e)
IsCodeText(text) ==
    text # <<>> /\ ~IsCommentText(text) /\ ~IsDirectiveText(text)

\* The directive a directive line begins with: up to the last > of the run
\* of characters after < that has no whitespace.
Fragment(text) ==
    IF IsDirectiveText(text)
    THEN SubSeq(Copy(text), 1,
                Max({e \in 1..Len(Copy(text)) : MatchesDirective(Copy(text), 1, e)}))
    ELSE <<>>

\* The trimmed text is #include, whitespace or none, and a double quote.
IsQuotedInclude(text) ==
    /\ HasPrefixAt(Copy(text), 1, IncludeKeyword)
    /\ \E q \in (Len(IncludeKeyword) + 1)..Len(Copy(text)) :
          /\ Copy(text)[q] = "\""
          /\ \A j \in (Len(IncludeKeyword) + 1)..(q - 1) : isspace(Copy(text)[j])

\* A line of code with a directive somewhere after its first character.
HasEmbeddedDirective(text) ==
    /\ IsCodeText(text)
    /\ \E k \in 2..Len(Copy(text)) : \E e \in k..Len(Copy(text)) :
          MatchesDirective(Copy(text), k, e)

\* The same, worked out once for every line the files are made of.
TextFacts ==
    [t \in Texts |->
        [code |-> IsCodeText(t),
         directive |-> IsDirectiveText(t),
         fragment |-> Fragment(t),
         quoted |-> IsQuotedInclude(t),
         embedded |-> HasEmbeddedDirective(t),
         plain |-> /\ \A k, e \in 1..Len(Copy(t)) : ~MatchesDirective(Copy(t), k, e)
                   /\ \A f \in Symbols : CountRefs(Copy(t), f) = 0,
         before |-> [f \in Symbols |-> CountRefs(BeforeComment(Copy(t)), f)],
         from |-> [f \in Symbols |-> CountRefs(FromComment(Copy(t)), f)],
         whole |-> [f \in Symbols |-> CountRefs(Copy(t), f)]]]

\* The loop has been through line n.
Scanned(n) == pc \in {"scan", "unlisted", "done"} /\ n \in 1..(i - 1)

\* C13: on a line that is not a directive the symbol references recorded as
\* usages are those before the first //, as often as they are written
\* there; on a directive line every reference of the whole line, the
\* comment included, is a listed symbol and none is a usage; and a symbol
\* an include lists that no line uses before its // is reported unused.
C13_CommentsOnlyListOnDirectives ==
    /\ \A n \in 1..Len(disk) : \A f \in Symbols :
          Scanned(n) =>
             /\ TextFacts[disk[n]].code =>
                   Cardinality({k \in 1..Len(temp_std_entities) :
                                   /\ temp_std_entities[k].number = n
                                   /\ temp_std_entities[k].function = f})
                      = TextFacts[disk[n]].before[f]
             /\ TextFacts[disk[n]].directive =>
                   /\ \A e \in Range(temp_std_entities) : e.number # n
                   /\ TextFacts[disk[n]].whole[f] > 0 =>
                         \E e \in Range(temp_includes_with_functions) :
                            /\ e.number = n
                            /\ Occurrences(e.unused_functions, f)
                                  = TextFacts[disk[n]].whole[f]
    /\ \A e \in Range(temp_std_entities) \cup Range(unlisted_functions) :
          e.function \in Symbols /\ TextFacts[e.text].code
    /\ Finished =>
          \A n \in 1..Len(disk) : \A f \in Symbols :
             (/\ TextFacts[disk[n]].directive
              /\ TextFacts[disk[n]].from[f] > 0
              /\ \A m \in 1..Len(disk) :
                    TextFacts[disk[m]].code => TextFacts[disk[m]].before[f] = 0)
             => \E e \in Range(unused_functions) :
                   e.number = n /\ f \in Range(e.unused_functions)

\* C13 witness: a line of code names a symbol only after its //, no usage
\* is recorded for it, and the include that lists this symbol in its
\* comment reports it unused.
C13_Witness ==
    /\ Finished
    /\ \E m, n \in 1..Len(disk) : \E f \in Symbols :
          /\ TextFacts[disk[m]].code
          /\ TextFacts[disk[m]].from[f] > 0
          /\ TextFacts[disk[m]].before[f] = 0
          /\ \E e \in Range(unlisted_functions) : e.number = m
          /\ \A e \in Range(unlisted_functions) : e.function # f
          /\ TextFacts[disk[n]].directive
          /\ TextFacts[disk[n]].from[f] > 0
          /\ \E e \in Range(unused_functions) :
                e.number = n /\ f \in Range(e.unused_functions)

\* A directive line with no symbol reference on it.
IsBareText(text) ==
    TextFacts[text].directive /\ \A f \in Symbols : TextFacts[text].whole[f] = 0

\* C14: an include directive line with no symbol reference yields exactly
\* one bare include, with the number and the text of the line and with the
\* directive it begins with, trimmed and in lower case, as its header, and
\* nothing else; no other line, a quoted include least of all, yields a
\* bare include.
C14_BareIncludeOfDirectiveLine ==
    /\ \A n \in 1..Len(disk) :
          (Scanned(n) /\ IsBareText(disk[n])) =>
             /\ Cardinality({k \in 1..Len(bare_includes) :
                                bare_includes[k].number = n}) = 1
             /\ \A e \in Range(bare_includes) :
                   e.number = n =>
                      e.text = disk[n] /\ e.header = TextFacts[disk[n]].fragment
             /\ \A e \in Range(temp_includes_with_functions)
                         \cup Range(temp_std_entities)
                         \cup Range(unused_functions)
                         \cup Range(unlisted_functions) : e.number # n
    /\ \A e \in Range(bare_includes) :
          IsBareText(e.text) /\ ~TextFacts[e.text].quoted

\* C14 witness: a bare include whose header is neither its line nor the
\* trimmed line, in a file with a quoted include that yields nothing.
C14_Witness ==
    /\ Finished
    /\ \E e \in Range(bare_includes) :
          /\ e.header # e.text
          /\ e.header # Copy(e.text)
          /\ ~NoUpperCase(e.text)
    /\ \E n \in 1..Len(disk) :
          /\ TextFacts[disk[n]].quoted
          /\ \A e \in Range(bare_includes) \cup Range(unused_functions)
                      \cup Range(unlisted_functions) : e.number # n

\* C15 as claimed: a line that has a directive after other code is treated
\* as a directive line: it yields a bare include or an include with listed
\* symbols.
C15_EmbeddedDirectiveIsDirective ==
    \A n \in 1..Len(disk) :
        (Scanned(n) /\ TextFacts[disk[n]].embedded) =>
            \E e \in Range(bare_includes) \cup Range(temp_includes_with_functions) :
                e.number = n

\* C15 amended: a line that has a directive after other code is not treated
\* as a directive line: it yields no bare include and lists no symbol, and
\* its symbol references before the first // are recorded as usages.
C15_EmbeddedDirectiveIsCode ==
    \A n \in 1..Len(disk) :
        (Scanned(n) /\ TextFacts[disk[n]].embedded) =>
            /\ \A e \in Range(bare_includes) \cup Range(temp_includes_with_functions)
                        \cup Range(unused_functions) : e.number # n
            /\ \A f \in Symbols :
                  Cardinality({k \in 1..Len(temp_std_entities) :
                                  /\ temp_std_entities[k].number = n
                                  /\ temp_std_entities[k].function = f})
                     = TextFacts[disk[n]].before[f]

\* C15 witness: the symbol written before an embedded directive is reported
\* as unlisted on that line, and the symbol in the directive's comment is
\* listed nowhere.
C15_Witness ==
    /\ Finished
    /\ \E n \in 1..Len(disk) : \E f, g \in Symbols :
          /\ TextFacts[disk[n]].embedded
          /\ TextFacts[disk[n]].before[f] > 0
          /\ \E e \in Range(unlisted_functions) : e.number = n /\ e.function = f
          /\ TextFacts[disk[n]].from[g] > 0
          /\ \A e \in Range(temp_includes_with_functions) :
                g \notin Range(e.unused_functions)

(***************************************************************************)
(* Properties of create_cpp_reference_link                                 *)
(***************************************************************************)
\* The two hexadecimal digits of the code of a character of the table.
HexOf(c) ==
    CASE c = " " -> <<"2", "0">>
      [] c = ":" -> <<"3", "A">>
      [] c = "=" -> <<"3", "D">>
IsEncoded(c) == c \in {" ", ":", "="}
Piece(c) == IF IsEncoded(c) THEN <<"%">> \o HexOf(c) ELSE <<c>>

\* Where the piece of the k-th character of the name starts in the body.
RECURSIVE PieceOffset(_, _)
PieceOffset(chars, k) ==
    IF k = 1 THEN 0
    ELSE PieceOffset(chars, k - 1) + Len(Piece(chars[k - 1]))

BaseUrl ==
    <<"h", "t", "t", "p", "s", ":", "/", "/", "d", "u", "c", "k", "d", "u", "c",
      "k", "g", "o", ".", "c", "o", "m", "/", "?", "s", "i", "t", "e", "s", "=",
      "c", "p", "p", "r", "e", "f", "e", "r", "e", "n", "c", "e", ".", "c", "o",
      "m", "&", "q", "=">>
UrlSuffix == <<"&", "i", "a", "=", "w", "e", "b">>

C20_PositionalAreThoseWithoutDash ==
    args_pc = "done" =>
        positional_args =
            SelectSeq(Tail(argv), LAMBDA arg : arg = <<>> \/ arg[1] # "-")

(***************************************************************************)
(* Properties of the whole file                                            *)
(***************************************************************************)
\* The file with its line a taken out and put back as line b.
Move(file, a, b) ==
    LET rest == SubSeq(file, 1, a - 1) \o SubSeq(file, a + 1, Len(file))
    IN  SubSeq(rest, 1, b - 1) \o <<file[a]>> \o SubSeq(rest, b, Len(rest))

\* The findings without their line numbers, and whether two sequences of
\* them hold the same ones as often.
UnusedOf(seq) ==
    [k \in 1..Len(seq) |->
        [text |-> seq[k].text, unused_functions |-> seq[k].unused_functions]]
UnlistedOf(seq) ==
    [k \in 1..Len(seq) |-> [text |-> seq[k].text, function |-> seq[k].function]]
SameFindings(s, t) ==
    /\ Len(s) = Len(t)
    /\ \A x \in Range(s) \cup Range(t) :
          Cardinality({k \in 1..Len(s) : s[k] = x})
             = Cardinality({k \in 1..Len(t) : t[k] = x})

\* C17: moving an include line that lists symbols to any other place of the
\* file, above or below the lines that use them, changes no unused list and
\* adds or removes no unlisted finding: the parser of the changed file
\* reports the same findings, line numbers and order aside.
C17_FindingsDoNotDependOnIncludePlace ==
    (Finished /\ kind = "regular") =>
        \A a, b \in 1..Len(disk) :
            (a # b /\ IsAnnotatedLine(a)) =>
                \A r \in CodeParser("regular", Move(disk, a, b)) :
                    /\ r.ok
                    /\ SameFindings(UnusedOf(r.unused_functions),
                                    UnusedOf(unused_functions))
                    /\ SameFindings(UnlistedOf(r.unlisted_functions),
                                    UnlistedOf(unlisted_functions))

\* C17 witness: an include below the line that uses a symbol it lists, and
\* no finding for this symbol; another symbol it lists is reported unused.
C17_Witness ==
    /\ Finished
    /\ \E m, n \in 1..Len(disk) : \E f \in Symbols :
          /\ m < n
          /\ TextFacts[disk[m]].code /\ TextFacts[disk[m]].before[f] > 0
          /\ TextFacts[disk[n]].directive /\ TextFacts[disk[n]].whole[f] > 0
          /\ \A e \in Range(unlisted_functions) : e.function # f
          /\ \E e \in Range(unused_functions) :
                e.number = n /\ f \notin Range(e.unused_functions)

\* C18: the loader delivers the lines of the file, each once and in the
\* order of the file, numbered 1, 2, ..., n; the delivered lines never
\* change; the loop starts at the first line, goes on by one line at a
\* time, and is left only after the last line.
C18_EveryLineOnceInOrder ==
    [][/\ pc' \in {"scan", "unlisted", "done"} =>
             /\ Len(lines') = Len(disk')
             /\ \A k \in 1..Len(lines') :
                   lines'[k].number = k /\ lines'[k].text = disk'[k]
       /\ pc = "load" => i' = 1
       /\ (pc = "scan" /\ pc' = "scan") =>
             /\ i \in 1..Len(lines)
             /\ i' = i + 1
             /\ lines' = lines
       /\ (pc = "scan" /\ pc' # "scan") =>
             /\ i = Len(lines) + 1
             /\ i' = i
             /\ lines' = lines
       /\ pc \in {"unlisted", "done"} => (i' = i /\ lines' = lines)]_vars

\* C18 witness: the constructor has returned after a loop over several
\* lines.
C18_Witness ==
    /\ Finished
    /\ Len(lines) >= 2
    /\ i = Len(lines) + 1
    /\ lines[Len(lines)].number = Len(lines)
    /\ lines[1].text # lines[2].text

\* C19: for a file in which no line has an include directive or a symbol
\* reference, all three results are empty.
C19_PlainFileHasNoFindings ==
    (Finished /\ \A n \in 1..Len(disk) : TextFacts[disk[n]].plain) =>
        /\ bare_includes = <<>>
        /\ unused_functions = <<>>
        /\ unlisted_functions = <<>>

\* C19 witness: the constructor has returned for a file of several such
\* lines, one of them a line of code that went through both patterns.
C19_Witness ==
    /\ Finished
    /\ Len(disk) >= 2
    /\ \A n \in 1..Len(disk) : TextFacts[disk[n]].plain
    /\ \E n \in 1..Len(disk) : TextFacts[disk[n]].code
    /\ bare_includes = <<>> /\ unused_functions = <<>> /\ unlisted_functions = <<>>

(***************************************************************************)
(* Properties of the report                                                *)
(***************************************************************************)
\* What process_file can insert for each of the three categories.
BareChunks ==
    {"-- 1) BARE INCLUDES --", "-> Bare include directive.",
     "-> Add a comment to '{}'",
     "-> Disabled, but found {} bare include directives."}
UnusedChunks ==
    {"-- 2) UNUSED FUNCTIONS --", "-> Unused functions listed as comments.",
     "-> Remove '{}' comments from '{}'.",
     "-> Disabled, but found {} unused functions."}
UnlistedChunks ==
    {"-- 3) UNLISTED FUNCTIONS --", "-> Unlisted function.",
     "-> Add '{}' as a comment", "-> Reference: {}",
     "-> Disabled, but found {} unlisted functions."}

\* C21: a disabled category is silent: nothing about the bare includes of
\* any file reaches the output when bare is off, nothing about unused
\* functions when unused is off, nothing about unlisted functions when
\* unlisted is off, whether the file has such findings or not.
C21_DisabledCategoryIsSilent ==
    \A a \in 1..Len(console) :
        /\ ~args.enable.bare => console[a].what \notin BareChunks
        /\ ~args.enable.unused => console[a].what \notin UnusedChunks
        /\ ~args.enable.unlisted => console[a].what \notin UnlistedChunks

(***************************************************************************)
(* Properties of the two branches of app::run                              *)
(***************************************************************************)
IsInlineRun == filepaths_len < 2 \/ ~args.enable.multithreading
HasEnded(t) == task[t] \in {"done", "failed"}

\* The inline branch never uses the pool, and calls process_file for one
\* path at a time, in the order of args.filepaths.
InlineInOrder ==
    IsInlineRun =>
        /\ run_pc \notin {"submit", "get", "destroy"}
        /\ \A t, u \in 1..filepaths_len :
              (u < t /\ task[t] # "idle") => HasEnded(u)

\* The pool branch never calls process_file itself, and has submitted one
\* task for each path when the loop of submit_task is over.
OneTaskPerPath ==
    ~IsInlineRun =>
        /\ run_pc # "inline"
        /\ run_pc \in {"get", "destroy", "returned", "thrown"} =>
              \A t \in 1..filepaths_len : task[t] # "idle"
        /\ run_pc = "submit" =>
              \A t \in 1..filepaths_len : task[t] = "idle" <=> t >= path_index

\* No path is given to process_file a second time.
CalledAtMostOnce ==
    \A t \in 1..filepaths_len :
        task'[t] = "called" => task[t] \in {"idle", "called"}

\* C22: with fewer than two paths, or without multithreading, the paths are
\* processed inline, one after the other in input order; otherwise one task
\* per path is submitted to the pool; in both branches every path has been
\* processed, once, when app::run is over.
C22_EveryPathProcessedOnce ==
    /\ [](InlineInOrder /\ OneTaskPerPath)
    /\ [](RunIsOver => \A t \in 1..filepaths_len : HasEnded(t))
    /\ [][CalledAtMostOnce]_vars

\* The parser process_file constructs for the t-th path, when the file can
\* be read.
ParserOf(t) == CHOOSE parser \in Parsers[args.filepaths[t]] : parser.ok
HasAllClear(t) ==
    \E a \in 1..Len(console) : console[a].file = t /\ console[a].what = "-> OK."

\* C23: the report of a file holds the all-clear marker exactly when the
\* three result sequences of the file are empty, whatever the enable flags
\* are: the report as built in oss, and the report as printed.
C23_AllClearIffNoFindings ==
    \A t \in 1..filepaths_len :
        /\ task[t] \in {"built", "printing", "done"} =>
              ((\E k \in 1..Len(oss[t]) : oss[t][k].what = "-> OK.")
                  <=> /\ ParserOf(t).bare_includes = <<>>
                      /\ ParserOf(t).unused_functions = <<>>
                      /\ ParserOf(t).unlisted_functions = <<>>)
        /\ task[t] = "done" =>
              (HasAllClear(t)
                  <=> /\ ParserOf(t).bare_includes = <<>>
                      /\ ParserOf(t).unused_functions = <<>>
                      /\ ParserOf(t).unlisted_functions = <<>>)

\* C23 witness: a run has returned after the report of a file whose findings
\* are all in disabled categories, without the marker, and the report of a
\* file without findings, with the marker.
C23_Witness ==
    /\ run_pc = "returned"
    /\ ~args.enable.bare /\ ~args.enable.unused /\ ~args.enable.unlisted
    /\ \E t, u \in 1..filepaths_len :
          /\ task[t] = "done" /\ task[u] = "done"
          /\ ParserOf(t).bare_includes # <<>> /\ ~HasAllClear(t)
          /\ ParserOf(u).bare_includes = <<>> /\ HasAllClear(u)

(***************************************************************************)
(* Properties of main                                                      *)
(***************************************************************************)
HelpIsAsked ==
    \/ Tail(argv) = <<>>
    \/ \E k \in 2..Len(argv) : argv[k] \in {ArgH, ArgHelp}
StartsWithDash(arg) == arg # <<>> /\ arg[1] = "-"

\* C24: when main has returned: with no argument, or with -h or --help
\* among the arguments whatever the others are, app::run was not called,
\* and the status is EXIT_SUCCESS unless an exception was caught; without a
\* positional argument the status is EXIT_FAILURE; after any exception, of
\* the argument handling or of app::run, the status is EXIT_FAILURE; the
\* status is that of `return 0` only when app::run has returned normally.
C24_ExitStatusOfMain ==
    main_pc = "exited" =>
        /\ HelpIsAsked =>
              /\ run_pc = "idle"
              /\ run_error = "" => exit_status = "EXIT_SUCCESS"
        /\ (~HelpIsAsked /\ \A k \in 2..Len(argv) : StartsWithDash(argv[k]))
              => (exit_status = "EXIT_FAILURE" /\ run_pc = "idle")
        /\ run_error # "" => exit_status = "EXIT_FAILURE"
        /\ exit_status = "0" => (run_pc = "returned" /\ run_error = "")
        /\ exit_status \in {"EXIT_SUCCESS", "EXIT_FAILURE", "0"}

\* C24 witness: main has returned EXIT_SUCCESS for a command line with a
\* file and then --help, without analysing the file.
C24_Witness ==
    /\ main_pc = "exited"
    /\ exit_status = "EXIT_SUCCESS"
    /\ Len(argv) = 3 /\ argv[2] = FileOk /\ argv[3] = ArgHelp
    /\ run_pc = "idle" /\ files = <<>>

\* C25: on the pool, app::run is left, by its return or by the exception of
\* futures.get(), only when every submitted task has finished; after that
\* no task does anything: none builds a report from args, takes the mutex
\* of sync_out or writes through it.
C25_RunOutlivesItsTasks ==
    /\ []((~IsInlineRun /\ RunIsOver) =>
             /\ \A t \in 1..filepaths_len : HasEnded(t)
             /\ stream_mutex = 0)
    /\ [][RunIsOver =>
             UNCHANGED <<args, task, oss, written, stream_mutex, console,
                         thrown>>]_vars

\* C25 witness: the exception of the first task has left app::run, and the
\* task of the second path has finished with its report printed.
C25_Witness ==
    /\ ~IsInlineRun
    /\ run_pc = "thrown"
    /\ filepaths_len = 2
    /\ task[1] = "failed" /\ task[2] = "done"
    /\ IsReported(2)

\* What has reached the output from the call of process_file for the t-th
\* path.
BlockOf(t) ==
    LET own == SelectSeq(console, LAMBDA w : w.file = t)
    IN  [k \in 1..Len(own) |-> Chunk(own[k].what, own[k].number)]

\* C26: nothing of the report of a file whose analysis fails reaches the
\* output, not even its header; once the call for a file is over, or
\* app::run is, the output holds either the whole report of the file, from
\* the header to the separator, or nothing of it.
C26_ReportIsAllOrNothing ==
    \A t \in 1..filepaths_len :
        /\ task[t] = "failed" => BlockOf(t) = <<>>
        /\ (HasEnded(t) \/ RunIsOver) =>
              \/ BlockOf(t) = <<>>
              \/ /\ task[t] = "done"
                 /\ BlockOf(t) = oss[t]
                 /\ Head(BlockOf(t)) = HeaderChunk
                 /\ BlockOf(t)[Len(BlockOf(t))] = SeparatorChunk

\* C26 witness: a run on the pool is over; the analysis of the second file
\* failed and nothing of it was printed, the whole report of the first
\* file was.
C26_Witness ==
    /\ RunIsOver
    /\ ~IsInlineRun
    /\ task[1] = "done" /\ task[2] = "failed"
    /\ BlockOf(2) = <<>>
    /\ Len(BlockOf(1)) >= 3
    /\ \A a \in 1..Len(console) : console[a].file \in {0, 1}

(***************************************************************************)
(* Properties relating the results of one file                             *)
(***************************************************************************)
ReportedUnusedSymbols ==
    UNION {Range(unused_functions[k].unused_functions) :
              k \in 1..Len(unused_functions)}
ReportedUnlistedSymbols ==
    {unlisted_functions[k].function : k \in 1..Len(unlisted_functions)}

\* C27: no symbol is both in an unused list and in an unlisted finding of
\* the same file: every symbol reported unused is listed on an include and
\* used on no line, every symbol reported unlisted is used on a line and
\* listed on no include.
C27_UnusedAndUnlistedAreDisjoint ==
    (Finished /\ kind = "regular") =>
        /\ ReportedUnusedSymbols \cap ReportedUnlistedSymbols = {}
        /\ ReportedUnusedSymbols \subseteq (ListedOfFile \ UsagesOfFile)
        /\ ReportedUnlistedSymbols \subseteq (UsagesOfFile \ ListedOfFile)

\* C27 witness: a file with a symbol reported unused, another reported
\* unlisted, and a third both listed and used.
C27_Witness ==
    /\ Finished
    /\ ReportedUnusedSymbols # {}
    /\ ReportedUnlistedSymbols # {}
    /\ ListedOfFile \cap UsagesOfFile # {}

\* What the lines of the file say: whether one of them is an include
\* directive without a symbol, and the symbols listed on its directive
\* lines and used before the comment of its lines of code.
HasBareLine ==
    \E n \in 1..Len(disk) :
        /\ TextFacts[disk[n]].directive
        /\ \A f \in Symbols : TextFacts[disk[n]].whole[f] = 0
ListedSymbols ==
    {f \in Symbols :
        \E n \in 1..Len(disk) :
            TextFacts[disk[n]].directive /\ TextFacts[disk[n]].whole[f] > 0}
UsedSymbols ==
    {f \in Symbols :
        \E n \in 1..Len(disk) :
            TextFacts[disk[n]].code /\ TextFacts[disk[n]].before[f] > 0}

\* C28: the three result sequences of a file are all empty exactly when the
\* file has no bare include line and the set of the symbols listed on its
\* include lines is the set of the symbols used on its other lines.
C28_NoFindingsIffListedIsUsed ==
    (Finished /\ kind = "regular") =>
        ((bare_includes = <<>> /\ unused_functions = <<>>
              /\ unlisted_functions = <<>>)
            <=> (~HasBareLine /\ ListedSymbols = UsedSymbols))

\* C28 witness: a file without findings whose includes list the symbols its
\* code uses, more than one of them.
C28_Witness ==
    /\ Finished
    /\ bare_includes = <<>> /\ unused_functions = <<>>
    /\ unlisted_functions = <<>>
    /\ ~HasBareLine
    /\ ListedSymbols = UsedSymbols
    /\ Cardinality(UsedSymbols) >= 2

(***************************************************************************)
(* io::disk::File against modules::analyze::CodeParser                     *)
(***************************************************************************)
AllEnabled == globals = [bare |-> TRUE, unused |-> TRUE, unlisted |-> TRUE]

\* The results of io::disk::File in the shape of those of CodeParser, the
\* links aside.
FileBareIncludes ==
    [k \in 1..Len(bare_includes) |->
        [number |-> bare_includes[k].line.number,
         text |-> bare_includes[k].line.text,
         header |-> bare_includes[k].name]]
FileUnusedFunctions ==
    [k \in 1..Len(unused_functions) |->
        [number |-> unused_functions[k].line.number,
         text |-> unused_functions[k].line.text,
         unused_functions |-> unused_functions[k].functions]]
FileMissingFunctions ==
    [k \in 1..Len(missing_functions) |->
        [number |-> missing_functions[k].line.number,
         function |-> missing_functions[k].functions[1]]]
ParserUnlistedFunctions(r) ==
    [k \in 1..Len(r.unlisted_functions) |->
        [number |-> r.unlisted_functions[k].number,
         function |-> r.unlisted_functions[k].function]]

\* C29: with the three flags on, io::disk::File and CodeParser agree on
\* every file: one fails only when the other fails, and when they return
\* they hold the same bare includes, the same unused list for each include
\* line, and the same sequence of (line, symbol) unlisted occurrences.
C29_FileAgreesWithCodeParser ==
    (AllEnabled /\ pc \in {"done", "failed"}) =>
        \A r \in CodeParser(kind, disk) :
            /\ r.ok <=> pc = "done"
            /\ r.ok =>
                  /\ FileBareIncludes = r.bare_includes
                  /\ FileUnusedFunctions = r.unused_functions
                  /\ FileMissingFunctions = ParserUnlistedFunctions(r)

(***************************************************************************)
(* Properties of create_cpp_reference_link on two names                    *)
(***************************************************************************)
\* The link of every name.
Links == [n \in Names |-> create_cpp_reference_link(n)]
HasPercent(n) == \E k \in 1..Len(n) : n[k] = "%"

\* C30: create_cpp_reference_link is injective on all strings: no other
\* name, with or without a percent sign followed by two hex digits, has the
\* link of the name it was called with.
C30_LinkIsInjective ==
    link_pc = "returned" =>
        \A other \in Names \ {symbol_name} : Links[other] # link

\* C30, amended: create_cpp_reference_link is injective on the names without
\* a percent sign, the symbols of the engine among them: two different
\* names have the same link only when one of them holds a percent sign.
C30_LinkIsInjectiveWithoutPercent ==
    link_pc = "returned" =>
        \A other \in Names \ {symbol_name} :
            Links[other] = link => (HasPercent(symbol_name) \/ HasPercent(other))

\* C30 witness: the link of the name " " has been built; it is the link of
\* the name "%20" and of no other name; and the link of a symbol of the
\* engine has been built that differs from the links of all other names
\* without a percent sign.
C30_Witness ==
    /\ link_pc = "returned"
    /\ \/ /\ symbol_name = <<" ">>
          /\ {other \in Names \ {symbol_name} : Links[other] = link}
                = {<<"%", "2", "0">>}
       \/ /\ symbol_name = <<"%", "2", "0">>
          /\ Links[<<" ">>] = link
    /\ \A e \in EngineNames : \A other \in Names \ {e} :
          Links[other] = Links[e] => HasPercent(other)

====
